---- MODULE Spec2Model ----
(***************************************************************************)
(* Model of the AutoML orchestration core: the training pipeline           *)
(* (AutoMLOrchestrator.train_models), the problem-type classifier, the     *)
(* metric computation, the two rankers (_rank_models_by_performance and    *)
(* ModelEvaluator.compare_models) and the suggestion engine                *)
(* (AutoMLOrchestrator.suggest_models).                                    *)
(*                                                                         *)
(* Python values are modelled as follows.                                  *)
(*   float / None : a record [tag, val]; val is in hundredths.             *)
(*   dict         : a sequence of <<key, value>> pairs in insertion order. *)
(*   a column     : a bag of cell values ("nan" is a missing cell).        *)
(* The scikit-learn estimators are opaque: what fit, predict and the       *)
(* metric functions do for one model is drawn from a bounded set of        *)
(* outcomes and recorded in the variable events.                           *)
(***************************************************************************)
EXTENDS Integers, Sequences, FiniteSets, Bags, TLC

VARIABLES
    df,               \* the caller's dataset: dtype and cells of the target column
    selected_models,  \* the requested model names (a list, duplicates allowed)
    pc,               \* position of the running call
    i,                \* loop index into the list being trained
    problem_type,     \* the problem type the running call resolved
    data_shape,       \* [train, test] row counts of the split
    results,          \* dict model name -> per-model result record
    error,            \* the exception a call raised (None: none)
    events,           \* what each trained model's fit/predict/metrics did, in order
    report,           \* what compare_models returned for results
    classified,       \* what the calls of classify(df, target) made so far returned
    problem_type_arg, \* suggest_models: the caller's problem_type ("None": not given)
    openai_api_key,   \* whether OPENAI_API_KEY is configured
    model_comparison, \* suggest_models: dict model name -> quick comparison entry
    payload,          \* what suggest_models returned
    config,           \* train_models: the caller's config (test_size, random_state)
    split_args,       \* train_models: what it passed to train_test_split
    table,            \* DataProcessor: the dataset handed to analyze_dataset
    profile,          \* DataProcessor: what analyze_dataset returned
    active_sessions,  \* main.py: dict session id -> stored session
    file_hash_to_session, \* main.py: dict content hash -> session id
    request,          \* main.py: the HTTP request handled last
    response,         \* main.py: the HTTP response the client received for it
    now,              \* main.py: datetime.now() in whole seconds
    estimator,        \* train_models: the fitted model handed to _get_feature_importance
    memory,           \* the DataFrame objects alive; memory[1] is the caller's dataset
    prepared          \* per preprocessing path, the feature table it returned

\* the state only suggest_models touches, and the state it never touches
suggestState == <<problem_type_arg, openai_api_key, model_comparison, payload>>
profilerState == <<table, profile>>
serverState == <<active_sessions, file_hash_to_session, request, response, now>>
\* the inputs of the calls modelled on their own
auxState == <<estimator, memory, prepared>>
trainState == <<selected_models, data_shape, results, error, report, classified,
                config, split_args>>

vars == <<df, selected_models, pc, i, problem_type, data_shape, results, error,
          events, report, classified, problem_type_arg, openai_api_key,
          model_comparison, payload, config, split_args, table, profile,
          active_sessions, file_hash_to_session, request, response, now,
          estimator, memory, prepared>>

----------------------------------------------------------------------------
(* Bounds of the model *)

\* longest request (number of entries of selected_models)
MaxModels == 2
\* the larger cell counts of a target value: BlockRows - 1 and BlockRows
BlockRows == 20
\* most direct calls of classify on one dataset
MaxClassifyCalls == 2

----------------------------------------------------------------------------
(* Python values *)

None == [tag |-> "None", val |-> 0]
Fin(v) == [tag |-> "float", val |-> v]
NaN == [tag |-> "nan", val |-> 0]
PosInf == [tag |-> "inf", val |-> 1]
NegInf == [tag |-> "inf", val |-> -1]

isnan(x) == x.tag = "nan"
isinf(x) == x.tag = "inf"
IsFloat(x) == x.tag \in {"float", "nan", "inf"}

\* dict operations; a dict is a sequence of <<key, value>> pairs
DictKeys(d) == [j \in 1..Len(d) |-> d[j][1]]
DictHas(d, k) == \E j \in 1..Len(d) : d[j][1] = k
DictGet(d, k) == d[CHOOSE j \in 1..Len(d) : d[j][1] = k][2]
DictSet(d, k, v) ==
    IF DictHas(d, k)
    THEN [j \in 1..Len(d) |-> IF d[j][1] = k THEN <<k, v>> ELSE d[j]]
    ELSE Append(d, <<k, v>>)

\* no preprocessing path has run
NotRun == [done |-> FALSE, X |-> <<>>]
NothingPrepared == [train |-> NotRun, suggest |-> NotRun, processor |-> NotRun]
\* no dataset was handed to the profiler
NoTable == [rows |-> 0, columns |-> <<>>, duplicated |-> 0]

\* x in list
InList(x, s) == \E j \in 1..Len(s) : s[j] = x

----------------------------------------------------------------------------
(* The model registry: the keys of the two dicts, in insertion order *)

classification_models ==
    <<"random_forest", "logistic_regression", "svm", "naive_bayes",
      "decision_tree", "xgboost", "lightgbm">>

regression_models ==
    <<"random_forest", "linear_regression", "svm", "decision_tree",
      "xgboost", "lightgbm">>

model_dict(pt) ==
    IF pt = "classification" THEN classification_models ELSE regression_models

----------------------------------------------------------------------------
(* Datasets *)

\* Series.nunique(): the number of distinct non-missing cells
nunique(col) == Cardinality(BagToSet(col) \ {"nan"})
\* len(Series): the number of rows, missing cells included
len(col) == BagCardinality(col)

\* the policy constant 0.05 of the unique-ratio test, in percent
UniqueRatioPct == 5

_determine_problem_type_ge(d) ==
    IF d.numeric
    THEN IF len(d.target) = 0
         THEN "ZeroDivisionError"
         ELSE IF nunique(d.target) * 100 >= UniqueRatioPct * len(d.target)
              THEN "regression"
              ELSE "classification"
    ELSE "classification"

\* returns the problem type, or "ZeroDivisionError" when nunique()/len(target)
\* divides by zero
_determine_problem_type(d) ==
    IF d.numeric
    THEN IF len(d.target) = 0
         THEN "ZeroDivisionError"
         ELSE IF nunique(d.target) * 100 > UniqueRatioPct * len(d.target)
              THEN "regression"
              ELSE "classification"
    ELSE "classification"

----------------------------------------------------------------------------
(* train_test_split *)

\* fractions are pairs <<numerator, denominator>>
FracMin(a, b) == IF a[1] * b[2] <= b[1] * a[2] THEN a ELSE b
Ceil(num, den) == (num + den - 1) \div den

\* the defaults of config.get("test_size", 0.2) and
\* config.get("random_state", 42)
DefaultTestSize == <<1, 5>>
DefaultConfig == [test_size |-> DefaultTestSize, random_state |-> 42]

test_size_for_unshrunk(n) == config.test_size

\* lines 145-147: the fraction that replaces test_size below ten rows
small_dataset_test_size(n, test_size) ==
    IF n < 10 THEN FracMin(<<1, 10>>, <<1, n>>) ELSE test_size

\* the test fraction train_models hands to train_test_split for n >= 1 rows
test_size_for(n) == small_dataset_test_size(n, config.test_size)

\* sklearn's split sizes: n_test = ceil(test_size * n), n_train = n - n_test;
\* an empty training set is a ValueError
train_test_split(n, ts) ==
    LET n_test == Ceil(ts[1] * n, ts[2])
        n_train == n - n_test
    IN  IF n_train <= 0 \/ n_test <= 0
        THEN [ok |-> FALSE, train |-> 0, test |-> 0]
        ELSE [ok |-> TRUE, train |-> n_train, test |-> n_test]

----------------------------------------------------------------------------
(* Metrics *)

ClassificationMetricKeys ==
    {"train_accuracy", "test_accuracy", "precision", "recall", "f1_score"}
RegressionMetricKeys ==
    {"train_mse", "test_mse", "train_mae", "test_mae", "r2_score"}
MetricKeys(pt) ==
    IF pt = "classification" THEN ClassificationMetricKeys
    ELSE RegressionMetricKeys

\* r2_score(y_test, test_pred) raising inside the bare try/except
Raises == [tag |-> "raises", val |-> 0]

clean_nan_values_nan_only(value) ==
    IF IsFloat(value) /\ isnan(value) THEN None ELSE value

clean_nan_values(value) ==
    IF IsFloat(value) /\ (isnan(value) \/ isinf(value)) THEN None ELSE value

\* raw[k] is what the sklearn metric function behind key k returned
_calculate_metrics(raw, pt) ==
    IF pt = "classification"
    THEN [k \in ClassificationMetricKeys |-> clean_nan_values(raw[k])]
    ELSE LET r2_value == IF raw["r2_score"] = Raises THEN NaN
                         ELSE raw["r2_score"]
         IN  [k \in RegressionMetricKeys |->
                 IF k = "r2_score" THEN clean_nan_values(r2_value)
                 ELSE clean_nan_values(raw[k])]

\* which attribute the fitted estimator of a registry entry exposes
_get_feature_importance(model_name) ==
    IF model_name \in {"random_forest", "decision_tree", "xgboost", "lightgbm"}
    THEN [source |-> "feature_importances_"]
    ELSE IF model_name \in {"logistic_regression", "linear_regression"}
         THEN [source |-> "coef_"]
         ELSE [source |-> "none"]

----------------------------------------------------------------------------
(* What the opaque estimators and metric functions can do for one model *)

Times == {1, 6}
FiniteScores == {Fin(40), Fin(90)}
BadValues == {NaN, PosInf, NegInf}

RawMetrics(pt) ==
    {[k \in MetricKeys(pt) |-> f] : f \in FiniteScores}
    \cup {[k \in MetricKeys(pt) |-> IF k = bk THEN b ELSE Fin(90)] :
             bk \in MetricKeys(pt), b \in BadValues}
    \cup (IF pt = "regression"
          THEN {[k \in MetricKeys(pt) |->
                    IF k = "r2_score" THEN Raises ELSE Fin(90)]}
          ELSE {})

SuccessOutcomes(pt) ==
    {[ok |-> TRUE, time |-> t, raw |-> r, msg |-> ""] :
        t \in Times, r \in {[k \in MetricKeys(pt) |-> f] : f \in FiniteScores}}
    \cup {[ok |-> TRUE, time |-> 1, raw |-> r, msg |-> ""] : r \in RawMetrics(pt)}

\* fit, predict or a metric function raising: str(e) names the stage
FailureOutcomes(pt) ==
    {[ok |-> FALSE, time |-> 0, raw |-> [k \in MetricKeys(pt) |-> None], msg |-> m] :
        m \in {"fit failed", "predict failed", "metric failed"}}

----------------------------------------------------------------------------
(* train_models *)

invalid_models_first_only(selected, pt) ==
    LET bad == SelectSeq(selected, LAMBDA m : ~InList(m, model_dict(pt)))
    IN  IF bad = <<>> THEN <<>> ELSE <<bad[1]>>

\* [m for m in selected_models if m not in model_dict]
invalid_models(selected, pt) ==
    SelectSeq(selected, LAMBDA m : ~InList(m, model_dict(pt)))

\* the ValueError of the validation step
InvalidModelsError(invalid, pt) ==
    [type |-> "ValueError", what |-> "Invalid model(s) selected",
     invalid |-> invalid, problem_type |-> pt, available |-> model_dict(pt)]

SplitError == [type |-> "ValueError", what |-> "the resulting train set will be empty"]
ZeroDivisionError == [type |-> "ZeroDivisionError", what |-> "division by zero"]

SuccessResult(model_name, o, pt) ==
    [model |-> model_name,
     training_time |-> Fin(o.time),
     metrics |-> _calculate_metrics(o.raw, pt),
     feature_importance |-> _get_feature_importance(model_name),
     status |-> "success"]

ExceptHandlerSkip(res, model_name, msg) == res

\* except Exception as e: results[model_name] = {...}
ExceptHandler(res, model_name, msg) ==
    DictSet(res, model_name,
            [model |-> model_name, status |-> "error", error |-> msg])

\* lines 137-151: _prepare_data, the small-dataset test size and the split
PrepareAndSplit ==
    /\ pc = "train_models"
    /\ LET n == len(df.target)
       IN  IF n = 0
           THEN /\ pc' = "raised"
                /\ error' = ZeroDivisionError
                /\ UNCHANGED <<data_shape, split_args>>
           ELSE LET s == train_test_split(n, test_size_for(n))
                IN  /\ split_args' = [test_size |-> test_size_for(n),
                                      random_state |-> config.random_state]
                    /\ IF s.ok
                       THEN /\ pc' = "split"
                            /\ data_shape' = [train |-> s.train, test |-> s.test]
                            /\ UNCHANGED error
                       ELSE /\ pc' = "raised"
                            /\ error' = SplitError
                            /\ UNCHANGED data_shape
    /\ UNCHANGED <<df, auxState, serverState, profilerState, selected_models, config, i, problem_type, results, events,
                   report, classified, suggestState>>

\* lines 153-162: the problem type, the validation of the names, results = {}
DetermineAndValidate ==
    /\ pc = "split"
    /\ LET pt == _determine_problem_type(df)
           bad == invalid_models(selected_models, pt)
       IN  /\ problem_type' = pt
           /\ IF bad # <<>>
              THEN /\ pc' = "raised"
                   /\ error' = InvalidModelsError(bad, pt)
                   /\ UNCHANGED <<results, i>>
              ELSE /\ pc' = "loop"
                   /\ results' = <<>>
                   /\ i' = 1
                   /\ UNCHANGED error
    /\ UNCHANGED <<df, auxState, serverState, profilerState, selected_models, config, split_args, data_shape, events, report, classified, suggestState>>

\* lines 164-194: one iteration in which fit, predict and the metrics return
TrainSuccess ==
    /\ pc = "loop"
    /\ i <= Len(selected_models)
    /\ InList(selected_models[i], model_dict(problem_type))
    /\ \E o \in SuccessOutcomes(problem_type) :
          /\ results' = DictSet(results, selected_models[i],
                                SuccessResult(selected_models[i], o, problem_type))
          /\ events' = Append(events, o)
    /\ i' = i + 1
    /\ UNCHANGED <<df, auxState, serverState, profilerState, selected_models, config, split_args, pc, problem_type, data_shape, error,
                   report, classified, suggestState>>

\* lines 164-201: one iteration in which fit, predict or a metric raises
TrainFailure ==
    /\ pc = "loop"
    /\ i <= Len(selected_models)
    /\ InList(selected_models[i], model_dict(problem_type))
    /\ \E o \in FailureOutcomes(problem_type) :
          /\ results' = ExceptHandler(results, selected_models[i], o.msg)
          /\ events' = Append(events, o)
    /\ i' = i + 1
    /\ UNCHANGED <<df, auxState, serverState, profilerState, selected_models, config, split_args, pc, problem_type, data_shape, error,
                   report, classified, suggestState>>

\* lines 203-211: the loop is over, the call returns
Return ==
    /\ pc = "loop"
    /\ i > Len(selected_models)
    /\ pc' = "returned"
    /\ UNCHANGED <<df, auxState, serverState, profilerState, selected_models, config, split_args, i, problem_type, data_shape, results,
                   error, events, report, classified, suggestState>>

----------------------------------------------------------------------------
(* ModelEvaluator.compare_models *)

\* dict.get(key, default) on a dict with string keys
Get(r, k, default) == IF k \in DOMAIN r THEN r[k] ELSE default

\* the order of floats: -inf < every finite number < inf
Num(x) == IF x.tag = "inf" THEN x.val * 1000000 ELSE x.val

\* sorted(items, key=..., reverse=True): a stable sort by key, descending;
\* keyed is the sequence of <<key, item>> pairs. An item goes behind every item
\* of larger key and behind the earlier items of equal key.
SortedPosition(keyed, j) ==
    1 + Cardinality({k \in 1..Len(keyed) :
                        \/ Num(keyed[k][1]) > Num(keyed[j][1])
                        \/ k < j /\ Num(keyed[k][1]) = Num(keyed[j][1])})

sorted_reverse(keyed) ==
    [p \in 1..Len(keyed) |->
        keyed[CHOOSE j \in 1..Len(keyed) : SortedPosition(keyed, j) = p]]

\* the comparisons of the sort raise TypeError when a key is None
SortRaises(keyed) ==
    Len(keyed) >= 2 /\ \E j \in 1..Len(keyed) : keyed[j][1].tag = "None"

IsSuccess(result) == "status" \in DOMAIN result /\ result.status = "success"

\* lines 113-122: the problem type read off the first successful result
detect_problem_type(model_results) ==
    LET hits == {j \in 1..Len(model_results) :
                    /\ IsSuccess(model_results[j][2])
                    /\ "metrics" \in DOMAIN model_results[j][2]}
    IN  IF hits = {} THEN "None"
        ELSE LET first == CHOOSE j \in hits : \A k \in hits : j <= k
                 metrics == model_results[first][2].metrics
             IN  IF "accuracy" \in DOMAIN metrics THEN "classification"
                 ELSE IF "mse" \in DOMAIN metrics THEN "regression"
                 ELSE "None"

\* min(items, key=...) and max(items, key=...): the first item of least
\* (greatest) key; vals is the sequence of keys
ArgMin(vals) ==
    CHOOSE j \in 1..Len(vals) :
        \A k \in 1..Len(vals) :
            Num(vals[j]) <= Num(vals[k]) /\ (k < j => Num(vals[k]) > Num(vals[j]))
ArgMax(vals) ==
    CHOOSE j \in 1..Len(vals) :
        \A k \in 1..Len(vals) :
            Num(vals[j]) >= Num(vals[k]) /\ (k < j => Num(vals[k]) < Num(vals[j]))
HasNone(vals) == \E j \in 1..Len(vals) : vals[j].tag = "None"

\* lines 196-204: the speed insight; times and scores are in hundredths
TimeInsights(sm) ==
    LET times == [j \in 1..Len(sm) |-> Get(sm[j][2], "training_time", Fin(0))]
        fastest == ArgMin(times)
        slowest == ArgMax(times)
    IN  IF /\ Num(times[slowest]) > 0
           /\ Num(times[fastest]) > 0
           /\ Num(times[slowest]) > 5 * Num(times[fastest])
        THEN <<[kind |-> "faster", model |-> sm[fastest][1],
                than |-> sm[slowest][1]]>>
        ELSE <<>>

\* lines 207-213: the accuracy gap between the best and the worst model
AccuracyInsights(sm) ==
    LET accuracies == [j \in 1..Len(sm) |-> Get(sm[j][2].metrics, "accuracy", Fin(0))]
        best == ArgMax(accuracies)
        worst == ArgMin(accuracies)
    IN  IF Num(accuracies[best]) - Num(accuracies[worst]) > 10
        THEN <<[kind |-> "accuracy_difference", model |-> sm[best][1],
                than |-> sm[worst][1]]>>
        ELSE <<>>

\* lines 216-221: one overfitting insight per model, in dict order; the
\* subtraction raises TypeError at the first model with a null accuracy
train_acc(e) == Get(e[2].metrics, "train_accuracy", Fin(0))
test_acc(e) == Get(e[2].metrics, "test_accuracy", Fin(0))
OverfitRaisesAt(sm) ==
    {j \in 1..Len(sm) : train_acc(sm[j]).tag = "None" \/ test_acc(sm[j]).tag = "None"}
OverfitInsights(sm) ==
    LET stop == IF OverfitRaisesAt(sm) = {} THEN Len(sm) + 1
                ELSE CHOOSE j \in OverfitRaisesAt(sm) :
                        \A k \in OverfitRaisesAt(sm) : j <= k
        reached == SubSeq(sm, 1, stop - 1)
        over == SelectSeq(reached,
                          LAMBDA e : Num(train_acc(e)) - Num(test_acc(e)) > 10)
    IN  [j \in 1..Len(over) |-> [kind |-> "overfitting", model |-> over[j][1]]]

\* lines 223-230: the fit quality of the best regression model
R2Insights(sm) ==
    LET r2_scores == [j \in 1..Len(sm) |-> Get(sm[j][2].metrics, "r2_score", Fin(0))]
        best_r2 == ArgMax(r2_scores)
    IN  IF Num(r2_scores[best_r2]) > 90
        THEN <<[kind |-> "excellent_fit", model |-> sm[best_r2][1]]>>
        ELSE IF Num(r2_scores[best_r2]) < 50
        THEN <<[kind |-> "poor_fit"]>>
        ELSE <<>>

\* lines 233-240
EnsembleInsights(sm) ==
    IF /\ \E j \in 1..Len(sm) : sm[j][1] \in {"random_forest", "xgboost", "lightgbm"}
       /\ \E j \in 1..Len(sm) :
             sm[j][1] \in {"logistic_regression", "linear_regression"}
    THEN <<[kind |-> "ensemble_and_linear"]>>
    ELSE <<>>

CouldNotGenerate == <<[kind |-> "could_not_generate"]>>

\* lines 189-245: the rules run in one try block; an exception keeps the
\* insights appended so far, adds the failure note and skips the rest
_generate_performance_insights(sm, pt) ==
    LET times == [j \in 1..Len(sm) |-> Get(sm[j][2], "training_time", Fin(0))]
        accuracies == [j \in 1..Len(sm) |-> Get(sm[j][2].metrics, "accuracy", Fin(0))]
        r2_scores == [j \in 1..Len(sm) |-> Get(sm[j][2].metrics, "r2_score", Fin(0))]
    IN  IF HasNone(times) THEN CouldNotGenerate
        ELSE IF pt = "classification"
        THEN IF HasNone(accuracies)
             THEN TimeInsights(sm) \o CouldNotGenerate
             ELSE IF OverfitRaisesAt(sm) # {}
             THEN TimeInsights(sm) \o AccuracyInsights(sm)
                      \o OverfitInsights(sm) \o CouldNotGenerate
             ELSE TimeInsights(sm) \o AccuracyInsights(sm)
                      \o OverfitInsights(sm) \o EnsembleInsights(sm)
        ELSE IF HasNone(r2_scores)
             THEN TimeInsights(sm) \o CouldNotGenerate
             ELSE TimeInsights(sm) \o R2Insights(sm) \o EnsembleInsights(sm)

\* lines 137-145
primary_metric_of(pt) ==
    IF pt = "classification" THEN "f1_score" ELSE "r2_score"

\* lines 127-187, once the problem type is known
comparison_of(model_results, pt) ==
    LET successful_models ==
            SelectSeq(model_results, LAMBDA e : IsSuccess(e[2]))
        primary_metric == primary_metric_of(pt)
        default == IF pt = "classification" THEN Fin(0) ELSE NegInf
        keyed == [j \in 1..Len(successful_models) |->
                     <<Get(successful_models[j][2].metrics, primary_metric, default),
                       successful_models[j]>>]
        ranking == sorted_reverse(keyed)
        all_metrics == UNION {DOMAIN successful_models[j][2].metrics :
                                 j \in 1..Len(successful_models)}
    IN  IF successful_models = <<>>
        THEN [error |-> "No successful model results found"]
        ELSE IF \/ \E j \in 1..Len(successful_models) :
                      "metrics" \notin DOMAIN successful_models[j][2]
                \/ SortRaises(keyed)
        THEN [error |-> "Error comparing models"]
        ELSE [problem_type |-> pt,
              primary_metric |-> primary_metric,
              model_count |-> Len(successful_models),
              ranking |->
                  [j \in 1..Len(ranking) |->
                      [rank |-> j,
                       model |-> ranking[j][2][1],
                       primary_score |->
                           Get(ranking[j][2][2].metrics, primary_metric, None),
                       training_time |->
                           Get(ranking[j][2][2], "training_time", None)]],
              best_model |-> IF ranking # <<>> THEN ranking[1][2][1] ELSE "None",
              detailed_comparison |->
                  [metric \in all_metrics |->
                      [j \in 1..Len(successful_models) |->
                          <<successful_models[j][1],
                            Get(successful_models[j][2].metrics, metric, None)>>]],
              insights |-> _generate_performance_insights(successful_models, pt)]

compare_models(model_results) ==
    IF model_results = <<>>
    THEN [error |-> "No model results provided"]
    ELSE IF detect_problem_type(model_results) = "None"
    THEN [error |-> "Could not determine problem type from results"]
    ELSE comparison_of(model_results, detect_problem_type(model_results))

\* the caller ranks a result map: the one train_models returned, or any map
\* of TrainingResults
CompareModels ==
    /\ pc \in {"returned", "compare_models"}
    /\ report' = compare_models(results)
    /\ pc' = "compared"
    /\ UNCHANGED <<df, auxState, serverState, profilerState, selected_models, config, split_args, i, problem_type, data_shape, results,
                   error, events, classified, suggestState>>

\* a direct call of classify(df, target) between pipeline calls; on an empty
\* numeric target the call raises and returns nothing
Classify ==
    /\ pc \in {"train_models", "returned", "raised"}
    /\ Len(classified) < MaxClassifyCalls
    /\ _determine_problem_type(df) # "ZeroDivisionError"
    /\ classified' = Append(classified, _determine_problem_type(df))
    /\ UNCHANGED <<df, auxState, serverState, profilerState, selected_models, config, split_args, pc, i, problem_type, data_shape, results,
                   error, events, report, suggestState>>

----------------------------------------------------------------------------
(* Inputs *)

TargetValues == {"a", "b", "nan"}
CountChoices == {0, 1, BlockRows - 1, BlockRows}
SmallCounts == {0, 1}

\* the bag holding c[v] copies of v
BagOf(c) == [v \in {w \in DOMAIN c : c[w] > 0} |-> c[v]]

Datasets ==
    {[numeric |-> b, target |-> BagOf(c)] :
        b \in BOOLEAN, c \in [TargetValues -> CountChoices]}
SmallDatasets ==
    {[numeric |-> b, target |-> BagOf(c)] :
        b \in BOOLEAN, c \in [{"a", "nan"} -> SmallCounts]}

RequestNames == {"random_forest", "linear_regression", "made_up_model"}
Requests(n) == UNION {[1..k -> RequestNames] : k \in 0..n}

Init ==
    /\ \/ df \in Datasets /\ selected_models \in Requests(1)
       \/ df \in SmallDatasets /\ selected_models \in Requests(MaxModels)
    /\ pc = "train_models"
    /\ i = 0
    /\ problem_type = "unset"
    /\ data_shape = [train |-> 0, test |-> 0]
    /\ results = <<>>
    /\ error = None
    /\ events = <<>>
    /\ report = None
    /\ classified = <<>>
    /\ problem_type_arg = "None"
    /\ openai_api_key = FALSE
    /\ model_comparison = <<>>
    /\ payload = None
    /\ config = DefaultConfig
    /\ split_args = None
    /\ table = NoTable
    /\ profile = None
    /\ active_sessions = <<>>
    /\ file_hash_to_session = <<>>
    /\ request = None
    /\ response = None
    /\ now = 0
    /\ memory = <<>>
    /\ prepared = NothingPrepared
    /\ estimator = None

Next ==
    \/ PrepareAndSplit
    \/ DetermineAndValidate
    \/ TrainSuccess
    \/ TrainFailure
    \/ Return
    \/ CompareModels

Spec == Init /\ [][Next]_vars

\* classify called directly, before and after a train_models call
ClassifyInit ==
    /\ Init
    /\ Len(selected_models) <= 1

ClassifyNext ==
    \/ Classify
    \/ Next

ClassifySpec == ClassifyInit /\ [][ClassifyNext]_vars

----------------------------------------------------------------------------
(* train_models on datasets of every small size, under several configs *)

\* most rows of a dataset of the split specification
MaxRows == 12

SplitDatasets ==
    {[numeric |-> b, target |-> BagOf([v \in {"a"} |-> n])] :
        b \in BOOLEAN, n \in 0..MaxRows}
Configs ==
    {[test_size |-> t, random_state |-> r] :
        t \in {DefaultTestSize, <<1, 2>>, <<3, 10>>}, r \in {42, 7}}

SplitInit ==
    /\ df \in SplitDatasets
    /\ selected_models \in Requests(1)
    /\ config \in Configs
    /\ split_args = None
    /\ table = NoTable
    /\ profile = None
    /\ active_sessions = <<>>
    /\ file_hash_to_session = <<>>
    /\ request = None
    /\ response = None
    /\ now = 0
    /\ memory = <<>>
    /\ prepared = NothingPrepared
    /\ estimator = None
    /\ pc = "train_models"
    /\ i = 0
    /\ problem_type = "unset"
    /\ data_shape = [train |-> 0, test |-> 0]
    /\ results = <<>>
    /\ error = None
    /\ events = <<>>
    /\ report = None
    /\ classified = <<>>
    /\ problem_type_arg = "None"
    /\ openai_api_key = FALSE
    /\ model_comparison = <<>>
    /\ payload = None

SplitNext == Next

SplitSpec == SplitInit /\ [][SplitNext]_vars

----------------------------------------------------------------------------
(* The ranker on its own: compare_models applied to a map of TrainingResults *)

\* most entries of a result map handed to compare_models
MaxResults == 2

RankNames == {"random_forest", "logistic_regression", "svm"}

\* metrics as the evaluator reports them
ClassificationResults ==
    {[status |-> "success", training_time |-> Fin(t),
      metrics |-> [accuracy |-> a, f1_score |-> f]] :
        t \in Times, a \in FiniteScores, f \in FiniteScores}
RegressionResults ==
    {[status |-> "success", training_time |-> Fin(t),
      metrics |-> [mse |-> Fin(10), r2_score |-> r]] :
        t \in Times, r \in FiniteScores \cup {None}}
ErrorResults == {[status |-> "error", error |-> "fit failed"]}
TrainingResults == ClassificationResults \cup RegressionResults \cup ErrorResults

\* dicts of at most n entries with distinct keys
ResultMaps(n) ==
    UNION {{[j \in 1..k |-> <<names[j], recs[j]>>] :
               names \in {f \in [1..k -> RankNames] :
                             \A a, b \in 1..k : a # b => f[a] # f[b]},
               recs \in [1..k -> TrainingResults]} : k \in 0..n}

RankInit ==
    /\ results \in ResultMaps(MaxResults)
    /\ pc = "compare_models"
    /\ df = [numeric |-> FALSE, target |-> EmptyBag]
    /\ selected_models = <<>>
    /\ i = 0
    /\ problem_type = "unset"
    /\ data_shape = [train |-> 0, test |-> 0]
    /\ error = None
    /\ events = <<>>
    /\ report = None
    /\ classified = <<>>
    /\ problem_type_arg = "None"
    /\ openai_api_key = FALSE
    /\ model_comparison = <<>>
    /\ payload = None
    /\ config = DefaultConfig
    /\ split_args = None
    /\ table = NoTable
    /\ profile = None
    /\ active_sessions = <<>>
    /\ file_hash_to_session = <<>>
    /\ request = None
    /\ response = None
    /\ now = 0
    /\ memory = <<>>
    /\ prepared = NothingPrepared
    /\ estimator = None

RankNext == CompareModels

RankSpec == RankInit /\ [][RankNext]_vars

----------------------------------------------------------------------------
(* suggest_models *)

\* most models of one comparison run whose estimator departs from the plain
\* outcome (a quick fit with the lower score)
MaxDeviant == 2

PlainOutcome(pt) ==
    [ok |-> TRUE, time |-> 1, raw |-> [k \in MetricKeys(pt) |-> Fin(40)], msg |-> ""]

primary_key(pt) == IF pt = "classification" THEN "test_accuracy" ELSE "r2_score"

QuickOutcomes(pt) ==
    {PlainOutcome(pt),
     [ok |-> TRUE, time |-> 6, raw |-> [k \in MetricKeys(pt) |-> Fin(40)], msg |-> ""],
     [ok |-> TRUE, time |-> 1, raw |-> [k \in MetricKeys(pt) |-> Fin(90)], msg |-> ""],
     [ok |-> TRUE, time |-> 1,
      raw |-> [k \in MetricKeys(pt) |-> IF k = primary_key(pt) THEN NaN ELSE Fin(90)],
      msg |-> ""],
     [ok |-> FALSE, time |-> 0, raw |-> [k \in MetricKeys(pt) |-> None],
      msg |-> "fit failed"]}

IsPlain(o) ==
    o.ok /\ o.time = 1 /\ \A k \in DOMAIN o.raw : o.raw[k] = Fin(40)
Deviants == Cardinality({j \in 1..Len(events) : ~IsPlain(events[j])})

\* lines 492-505
_get_rule_based_suggestions(pt) ==
    IF pt = "classification"
    THEN [recommended_models |-> <<"random_forest", "xgboost", "logistic_regression">>,
          reasoning |-> "Random Forest and XGBoost are robust ensemble methods, Logistic Regression provides interpretability"]
    ELSE [recommended_models |-> <<"random_forest", "xgboost", "linear_regression">>,
          reasoning |-> "Random Forest and XGBoost handle non-linear relationships, Linear Regression provides baseline"]

\* the first n entries of a list: s[:n]
Take(s, n) == SubSeq(s, 1, IF Len(s) < n THEN Len(s) ELSE n)

\* lines 420-447; the f-string of the log line raises on a None score
_rank_models_by_performance(comparison) ==
    LET successful_models == SelectSeq(comparison, LAMBDA e : IsSuccess(e[2]))
        keyed == [j \in 1..Len(successful_models) |->
                     <<successful_models[j][2].primary_score, successful_models[j]>>]
        ranked == sorted_reverse(keyed)
    IN  IF SortRaises(keyed) THEN <<>>
        ELSE IF \E j \in 1..Len(Take(ranked, 5)) : ranked[j][1].tag = "None"
        THEN <<>>
        ELSE [j \in 1..Len(ranked) |-> ranked[j][2][1]]

\* lines 449-490
_get_performance_based_suggestions(data_summary, comparison) ==
    LET ranked_models == _rank_models_by_performance(comparison)
        top == Take(ranked_models, 3)
        lines == [j \in 1..Len(top) |->
                     LET result == DictGet(comparison, top[j])
                     IN  [rank |-> j, model |-> top[j],
                          metric |-> Get(result, "primary_metric", "score"),
                          score |-> Get(result, "primary_score", Fin(0)),
                          time |-> Get(result, "training_time", Fin(0))]]
        note == IF Len(ranked_models) >= 2
                THEN LET top_model == DictGet(comparison, ranked_models[1])
                         second_model == DictGet(comparison, ranked_models[2])
                     IN  IF Num(Get(top_model, "training_time", Fin(0)))
                               > Num(Get(second_model, "training_time", Fin(0))) * 2
                         THEN <<[note |-> "trains much faster with similar performance",
                                 model |-> ranked_models[2]]>>
                         ELSE <<>>
                ELSE <<>>
    IN  IF ranked_models = <<>>
        THEN _get_rule_based_suggestions(data_summary.problem_type)
        ELSE IF \E j \in 1..Len(lines) : lines[j].score.tag = "None"
        THEN _get_rule_based_suggestions(data_summary.problem_type)
        ELSE [recommended_models |-> top,
              reasoning |-> <<[header |-> "Based on actual model testing with your data:"]>>
                            \o lines \o note,
              performance_data |-> comparison,
              method |-> "performance_based"]

\* lines 58-67, as far as the dataset is modelled
DataSummary(d, pt) ==
    [shape |-> len(d.target),
     target_type |-> IF d.numeric THEN "numeric" ELSE "object",
     target_unique_values |-> nunique(d.target),
     problem_type |-> pt]

\* the except branch of suggest_models
ErrorPayload(what, pt) ==
    [error |-> what,
     fallback_suggestions |->
         _get_rule_based_suggestions(IF pt = "None" THEN "classification" ELSE pt)]

\* lines 52-74: the problem type (given or derived) and the data summary
SuggestStart ==
    /\ pc = "suggest_models"
    /\ LET pt == IF problem_type_arg = "None"
                 THEN _determine_problem_type(df)
                 ELSE problem_type_arg
       IN  IF pt = "ZeroDivisionError"
           THEN /\ payload' = ErrorPayload("division by zero", "None")
                /\ pc' = "returned"
                /\ UNCHANGED problem_type
           ELSE /\ problem_type' = pt
                /\ pc' = "quick_comparison"
                /\ UNCHANGED payload
    /\ UNCHANGED <<df, auxState, serverState, profilerState, i, events, trainState, problem_type_arg, openai_api_key,
                   model_comparison>>

\* _quick_model_comparison, lines 342-359: the 0.3 split and the problem type
\* of the comparison run; an exception here returns {}
QuickPrepare ==
    /\ pc = "quick_comparison"
    /\ model_comparison' = <<>>
    /\ IF train_test_split(len(df.target), <<3, 10>>).ok
       THEN pc' = "quick_loop" /\ i' = 1
       ELSE pc' = "advisory" /\ UNCHANGED i
    /\ UNCHANGED <<df, auxState, serverState, profilerState, problem_type, events, trainState, problem_type_arg,
                   openai_api_key, payload>>

\* the model list suggest_models passes down, and the type the run itself derives
models_to_test == model_dict(problem_type)
comparison_type == _determine_problem_type(df)

\* the entry of a model whose fit, predictions and metrics completed; the log
\* line after the assignment formats primary_score with :.3f, which raises on
\* None and lands in the except branch
QuickEntry(model_name, o, pt) ==
    LET metrics == _calculate_metrics(o.raw, pt)
        primary_score == Get(metrics, primary_key(pt), Fin(0))
    IN  IF primary_score.tag = "None"
        THEN [model_name |-> model_name, status |-> "failed",
              error |-> "unsupported format string passed to NoneType.__format__",
              primary_score |-> Fin(0)]
        ELSE [model_name |-> model_name,
              training_time |-> Fin(o.time),
              primary_score |-> primary_score,
              primary_metric |-> IF pt = "classification" THEN "accuracy"
                                 ELSE "r2_score",
              all_metrics |-> metrics,
              status |-> "success"]

\* lines 361-402: one model of the comparison run completes
QuickSuccess ==
    /\ pc = "quick_loop"
    /\ i <= Len(models_to_test)
    /\ InList(models_to_test[i], model_dict(comparison_type))
    /\ \E o \in QuickOutcomes(comparison_type) :
          /\ o.ok
          /\ o = PlainOutcome(comparison_type) \/ Deviants < MaxDeviant
          /\ model_comparison' =
                 DictSet(model_comparison, models_to_test[i],
                         QuickEntry(models_to_test[i], o, comparison_type))
          /\ events' = Append(events, o)
    /\ i' = i + 1
    /\ UNCHANGED <<df, auxState, serverState, profilerState, pc, problem_type, trainState, problem_type_arg,
                   openai_api_key, payload>>

\* lines 404-411: fit or predict of one model raises
QuickFailure ==
    /\ pc = "quick_loop"
    /\ i <= Len(models_to_test)
    /\ InList(models_to_test[i], model_dict(comparison_type))
    /\ \E o \in QuickOutcomes(comparison_type) :
          /\ ~o.ok
          /\ Deviants < MaxDeviant
          /\ model_comparison' =
                 DictSet(model_comparison, models_to_test[i],
                         [model_name |-> models_to_test[i], status |-> "failed",
                          error |-> o.msg, primary_score |-> Fin(0)])
          /\ events' = Append(events, o)
    /\ i' = i + 1
    /\ UNCHANGED <<df, auxState, serverState, profilerState, pc, problem_type, trainState, problem_type_arg,
                   openai_api_key, payload>>

\* line 362: a name that is not in the run's own registry is passed over
QuickSkip ==
    /\ pc = "quick_loop"
    /\ i <= Len(models_to_test)
    /\ ~InList(models_to_test[i], model_dict(comparison_type))
    /\ i' = i + 1
    /\ UNCHANGED <<df, auxState, serverState, profilerState, pc, problem_type, events, trainState, suggestState>>

\* lines 413-414
QuickReturn ==
    /\ pc = "quick_loop"
    /\ i > Len(models_to_test)
    /\ pc' = "advisory"
    /\ UNCHANGED <<df, auxState, serverState, profilerState, i, problem_type, events, trainState, suggestState>>

\* lines 80-82 with a credential: _get_llm_suggestions takes one argument and
\* is called with two, a TypeError that the except branch of suggest_models
\* turns into the error payload
AdvisoryCall ==
    /\ pc = "advisory"
    /\ openai_api_key
    /\ payload' = ErrorPayload("_get_llm_suggestions() takes 2 positional arguments but 3 were given",
                               problem_type)
    /\ pc' = "returned"
    /\ UNCHANGED <<df, auxState, serverState, profilerState, i, problem_type, events, trainState, problem_type_arg,
                   openai_api_key, model_comparison>>

\* lines 80-98 without a credential
Finish ==
    /\ pc = "advisory"
    /\ ~openai_api_key
    /\ payload' =
          LET ranked_models == _rank_models_by_performance(model_comparison)
          IN  [problem_type |-> problem_type,
               data_summary |-> DataSummary(df, problem_type),
               model_comparison |-> model_comparison,
               performance_ranking |-> ranked_models,
               llm_suggestions |-> None,
               rule_based_suggestions |->
                   _get_performance_based_suggestions(
                       DataSummary(df, problem_type), model_comparison),
               recommended_models |-> Take(ranked_models, 3)]
    /\ pc' = "returned"
    /\ UNCHANGED <<df, auxState, serverState, profilerState, i, problem_type, events, trainState, problem_type_arg,
                   openai_api_key, model_comparison>>

SuggestInit ==
    /\ df \in SmallDatasets
    /\ problem_type_arg \in {"None", "classification", "regression"}
    /\ openai_api_key \in BOOLEAN
    /\ pc = "suggest_models"
    /\ i = 0
    /\ problem_type = "unset"
    /\ events = <<>>
    /\ model_comparison = <<>>
    /\ payload = None
    /\ config = DefaultConfig
    /\ split_args = None
    /\ table = NoTable
    /\ profile = None
    /\ active_sessions = <<>>
    /\ file_hash_to_session = <<>>
    /\ request = None
    /\ response = None
    /\ now = 0
    /\ memory = <<>>
    /\ prepared = NothingPrepared
    /\ estimator = None
    /\ selected_models = <<>>
    /\ data_shape = [train |-> 0, test |-> 0]
    /\ results = <<>>
    /\ error = None
    /\ report = None
    /\ classified = <<>>

SuggestNext ==
    \/ SuggestStart
    \/ QuickPrepare
    \/ QuickSuccess
    \/ QuickFailure
    \/ QuickSkip
    \/ QuickReturn
    \/ AdvisoryCall
    \/ Finish

SuggestSpec == SuggestInit /\ [][SuggestNext]_vars

\* suggest_models has no await that can suspend it and the fits are assumed
\* to terminate: a call that has not returned takes its next step. Running
\* is that step seen through pc and i alone (every step of SuggestNext moves
\* pc or i).
Running ==
    /\ pc # "returned"
    /\ pc' \in {"quick_comparison", "quick_loop", "advisory", "returned"}
    /\ i' \in 0..(Len(classification_models) + 1)

FairSuggestSpec ==
    SuggestInit /\ [][SuggestNext]_vars /\ WF_<<pc, i>>(Running)

----------------------------------------------------------------------------
(* DataProcessor: the profile of an uploaded dataset *)

\* A table is [rows, columns, duplicated]: its row count, its columns in
\* order, each [name, kind, cells] with cells the bag of its cell values, and
\* the number of rows df.duplicated() marks. A name is [text, no]; kind is
\* the dtype family, "numeric" or "categorical".
isnull_sum(col) == IF "nan" \in DOMAIN col.cells THEN col.cells["nan"] ELSE 0
notnull_count(col) == BagCardinality(col.cells) - isnull_sum(col)
numeric_cols(t) == SelectSeq(t.columns, LAMBDA c : c.kind = "numeric")
categorical_cols(t) == SelectSeq(t.columns, LAMBDA c : c.kind = "categorical")
missing_total(t) ==
    LET Sum[j \in 0..Len(t.columns)] ==
            IF j = 0 THEN 0 ELSE Sum[j - 1] + isnull_sum(t.columns[j])
    IN  Sum[Len(t.columns)]

\* Series.var() < 1e-6: the sample variance of cells that are whole numbers
\* is 0 when at least two cells are present and all are equal, NaN with
\* fewer than two cells, and at least 1/rows otherwise
var_below_threshold(col) == notnull_count(col) >= 2 /\ nunique(col.cells) = 1

\* the keywords of _get_data_quality_recommendations that the lower-cased
\* text of a column name contains
NameKeywords(text) ==
    CASE text = "Missing Values" -> {"missing values"}
      [] text = "duplicate_flag" -> {"duplicate"}
      [] text = "low variance sensor" -> {"low variance"}
      [] OTHER -> {}
\* the keywords the fixed part of an issue string contains
KindKeywords(kind) ==
    CASE kind \in {"High missing values", "Moderate missing values"}
             -> {"missing values"}
      [] kind \in {"High duplicate rows", "Moderate duplicate rows"}
             -> {"duplicate"}
      [] kind = "Low variance columns" -> {"low variance"}
      [] kind = "High cardinality columns" -> {"high cardinality"}
\* keyword in issue.lower(): the issue string is its fixed part followed by
\* the list of column names it reports
IssueContains(issue, keyword) ==
    \/ keyword \in KindKeywords(issue.kind)
    \/ \E j \in 1..Len(issue.cols) : keyword \in NameKeywords(issue.cols[j].text)

\* lines 134-142: the first keyword found in the issue decides
recommendation_for(issue) ==
    IF IssueContains(issue, "missing values")
    THEN <<"Consider imputation strategies for missing values">>
    ELSE IF IssueContains(issue, "duplicate")
    THEN <<"Remove duplicate rows to improve data quality">>
    ELSE IF IssueContains(issue, "low variance")
    THEN <<"Consider removing low variance columns">>
    ELSE IF IssueContains(issue, "high cardinality")
    THEN <<"Consider encoding or grouping high cardinality categorical variables">>
    ELSE <<>>

\* lines 128-144
_get_data_quality_recommendations(issues) ==
    LET Rec[j \in 0..Len(issues)] ==
            IF j = 0 THEN <<>> ELSE Rec[j - 1] \o recommendation_for(issues[j])
    IN  Rec[Len(issues)]

\* lines 81-88: the penalty for missing cells; 0/0 on a table without cells
\* is NaN, which compares false
missing_penalty(t) ==
    LET size == t.rows * Len(t.columns)
        missing == missing_total(t)
    IN  IF size > 0 /\ 10 * missing > size
        THEN [points |-> 20, issues |-> <<[kind |-> "High missing values", cols |-> <<>>]>>]
        ELSE IF size > 0 /\ 20 * missing > size
        THEN [points |-> 10, issues |-> <<[kind |-> "Moderate missing values", cols |-> <<>>]>>]
        ELSE [points |-> 0, issues |-> <<>>]

\* lines 90-97
duplicate_penalty(t) ==
    IF t.rows > 0 /\ 10 * t.duplicated > t.rows
    THEN [points |-> 15, issues |-> <<[kind |-> "High duplicate rows", cols |-> <<>>]>>]
    ELSE IF t.rows > 0 /\ 20 * t.duplicated > t.rows
    THEN [points |-> 8, issues |-> <<[kind |-> "Moderate duplicate rows", cols |-> <<>>]>>]
    ELSE [points |-> 0, issues |-> <<>>]

\* lines 99-108
low_variance_penalty(t) ==
    LET low_variance_cols == SelectSeq(numeric_cols(t), var_below_threshold)
    IN  IF low_variance_cols # <<>>
        THEN [points |-> Len(low_variance_cols) * 5,
              issues |-> <<[kind |-> "Low variance columns",
                            cols |-> [j \in 1..Len(low_variance_cols) |->
                                         low_variance_cols[j].name]]>>]
        ELSE [points |-> 0, issues |-> <<>>]

\* lines 110-120, for a table with rows: nunique() / len(df) > 0.8
high_cardinality_penalty(t) ==
    LET high_cardinality_cols ==
            SelectSeq(categorical_cols(t),
                      LAMBDA c : 5 * nunique(c.cells) > 4 * t.rows)
    IN  IF high_cardinality_cols # <<>>
        THEN [points |-> Len(high_cardinality_cols) * 10,
              issues |-> <<[kind |-> "High cardinality columns",
                            cols |-> [j \in 1..Len(high_cardinality_cols) |->
                                         high_cardinality_cols[j].name]]>>]
        ELSE [points |-> 0, issues |-> <<>>]

quality_score(t) ==
    100 - missing_penalty(t).points - duplicate_penalty(t).points
        - low_variance_penalty(t).points - high_cardinality_penalty(t).points

quality_issues(t) ==
    missing_penalty(t).issues \o duplicate_penalty(t).issues
        \o low_variance_penalty(t).issues \o high_cardinality_penalty(t).issues

overall_score_unfloored(score) == score

\* line 123: max(0, quality_score)
overall_score(score) == IF score < 0 THEN 0 ELSE score

\* lines 74-126; on a table without rows the division of line 114 raises
\* ZeroDivisionError for the first categorical column
_assess_data_quality(t) ==
    IF t.rows = 0 /\ categorical_cols(t) # <<>>
    THEN [raised |-> "ZeroDivisionError"]
    ELSE [overall_score |-> overall_score(quality_score(t)),
          issues |-> quality_issues(t),
          recommendations |-> _get_data_quality_recommendations(quality_issues(t))]

\* value_counts(): the counts of the values present, missing cells excluded
value_counts(col) ==
    {col.cells[v] : v \in BagToSet(col.cells) \ {"nan"}}
SetMin(S) == CHOOSE x \in S : \A y \in S : x <= y
SetMax(S) == CHOOSE x \in S : \A y \in S : x >= y

\* lines 165-181: the points for the kind of column
kind_points(col, rows) ==
    IF col.kind = "categorical"
    THEN IF 2 <= nunique(col.cells) /\ nunique(col.cells) <= 20 THEN 30
         ELSE IF nunique(col.cells) > 20 THEN 10
         ELSE 0
    ELSE IF 20 * nunique(col.cells) > rows THEN 25 ELSE 15

\* lines 184-187
missing_points(col, rows) == IF 10 * isnull_sum(col) > rows THEN -20 ELSE 0

\* lines 190-201: min/max of the value counts against 0.3 and 0.1; without
\* any value present max() is NaN and the balance score is 0
balance_points(col) ==
    IF nunique(col.cells) > 10 THEN 0
    ELSE IF value_counts(col) = {} THEN -10
    ELSE IF 10 * SetMin(value_counts(col)) > 3 * SetMax(value_counts(col)) THEN 15
    ELSE IF 10 * SetMin(value_counts(col)) > SetMax(value_counts(col)) THEN 5
    ELSE -10

\* lines 153-203, for a table with rows
target_info(col, rows) ==
    [column |-> col.name,
     type |-> col.kind,
     unique_values |-> nunique(col.cells),
     missing_values |-> isnull_sum(col),
     suitability_score |->
         kind_points(col, rows) + missing_points(col, rows) + balance_points(col)]

top_candidates_unsorted(infos) == Take(infos, 5)

\* lines 205-208: the stable descending sort by score and the first five
top_candidates(infos) ==
    LET keyed == [j \in 1..Len(infos) |->
                     <<Fin(infos[j].suitability_score), infos[j]>>]
        ranked == sorted_reverse(keyed)
    IN  Take([j \in 1..Len(ranked) |-> ranked[j][2]], 5)

\* lines 146-208; on a table without rows the division of line 163 raises
\* ZeroDivisionError for the first column
_identify_potential_targets(t) ==
    IF t.rows = 0 /\ t.columns # <<>>
    THEN [raised |-> "ZeroDivisionError"]
    ELSE [raised |-> "no",
          targets |-> top_candidates([j \in 1..Len(t.columns) |->
                                         target_info(t.columns[j], t.rows)])]

\* lines 13-72: the fields built before the quality assessment, then the
\* assessment and the target candidates; any exception gives the error dict
analyze_dataset(t) ==
    LET data_quality == _assess_data_quality(t)
        potential_targets == _identify_potential_targets(t)
    IN  IF "raised" \in DOMAIN data_quality
        THEN [error |-> "Error analyzing dataset: division by zero"]
        ELSE IF potential_targets.raised # "no"
        THEN [error |-> "Error analyzing dataset: division by zero"]
        ELSE [shape |-> [rows |-> t.rows, columns |-> Len(t.columns)],
              columns |-> [names |-> [j \in 1..Len(t.columns) |-> t.columns[j].name],
                           types |-> [j \in 1..Len(t.columns) |-> t.columns[j].kind]],
              missing_values |->
                  [total |-> missing_total(t),
                   by_column |-> [j \in 1..Len(t.columns) |->
                                     isnull_sum(t.columns[j])]],
              data_types |->
                  [numeric |-> [j \in 1..Len(numeric_cols(t)) |->
                                   numeric_cols(t)[j].name],
                   categorical |-> [j \in 1..Len(categorical_cols(t)) |->
                                       categorical_cols(t)[j].name]],
              data_quality |-> data_quality,
              potential_targets |-> potential_targets.targets]

\* DataProcessor.analyze_dataset(df) is called and returns
AnalyzeDataset ==
    /\ pc = "analyze_dataset"
    /\ profile' = analyze_dataset(table)
    /\ pc' = "analyzed"
    /\ UNCHANGED <<df, auxState, serverState, table, i, problem_type, events, trainState,
                   suggestState>>

----------------------------------------------------------------------------
(* The tables handed to the profiler *)

\* most copies of one column shape in a table of one or two rows
MaxCopies == 9
\* most columns of a table of the target ranking
MaxTargetColumns == 6

Cells(a, b, m) ==
    BagOf([v \in {"a", "b", "nan"} |->
              CASE v = "a" -> a [] v = "b" -> b [] OTHER -> m])
Shape(kind, a, b, m) == [kind |-> kind, cells |-> Cells(a, b, m)]

\* the values of a column whose cells are (nearly) all different
IdTokens ==
    <<"v01", "v02", "v03", "v04", "v05", "v06", "v07", "v08", "v09", "v10",
      "v11", "v12", "v13", "v14", "v15", "v16", "v17", "v18", "v19", "v20",
      "v21", "v22", "v23", "v24">>
\* n cells holding n - r different values: the first value r + 1 times
IdShape(kind, n, r) ==
    [kind |-> kind,
     cells |-> [v \in {IdTokens[k] : k \in 1..(n - r)} |->
                   IF v = IdTokens[1] THEN r + 1 ELSE 1]]

\* the column shapes tried for a table of n rows
QualityShapes(n) ==
    CASE n = 0 -> <<Shape("categorical", 0, 0, 0), Shape("numeric", 0, 0, 0)>>
      [] n = 1 -> <<Shape("categorical", 1, 0, 0), Shape("numeric", 0, 0, 1),
                    Shape("numeric", 1, 0, 0)>>
      [] n = 2 -> <<Shape("categorical", 1, 1, 0), Shape("numeric", 2, 0, 0),
                    Shape("numeric", 0, 0, 2), Shape("categorical", 2, 0, 0)>>
      [] OTHER -> <<Shape("numeric", n - 1, 0, 1), Shape("numeric", n - 2, 0, 2),
                    Shape("categorical", n - 10, 10, 0), Shape("numeric", n, 0, 0),
                    Shape("categorical", 2, 0, n - 2),
                    IdShape("categorical", n, 0), IdShape("numeric", n, 1),
                    IdShape("numeric", n, 2), IdShape("numeric", n, 3)>>

CopyChoices(n) == IF n \in {1, 2} THEN {0, 1, MaxCopies} ELSE {0, 1}

\* copies[k] copies of shapes[k], for k = 1, 2, ..., in this order
Blocks(shapes, copies) ==
    LET B[k \in 0..Len(shapes)] ==
            IF k = 0 THEN <<>>
            ELSE B[k - 1] \o [j \in 1..copies[k] |-> shapes[k]]
    IN  B[Len(shapes)]

NameTexts == {"feature", "Missing Values", "duplicate_flag", "low variance sensor"}
Named(cols, text) ==
    [j \in 1..Len(cols) |->
        [name |-> [text |-> text, no |-> j],
         kind |-> cols[j].kind, cells |-> cols[j].cells]]

\* the numbers of duplicated rows a table with these columns can have: the
\* table has at least as many different rows as any column has different
\* cells, and at most as many as the product of these numbers
DistinctCells(col) == Cardinality(BagToSet(col.cells))
DuplicatedChoices(n, cols) ==
    LET most == SetMax({DistinctCells(cols[j]) : j \in 1..Len(cols)})
        Prod[j \in 0..Len(cols)] ==
            IF j = 0 THEN 1
            ELSE LET p == Prod[j - 1] * DistinctCells(cols[j])
                 IN  IF p > n THEN n ELSE p
    IN  IF n = 0 THEN {0} ELSE (n - Prod[Len(cols)])..(n - most)

QualityTables ==
    UNION {UNION {{[rows |-> n, columns |-> Named(cols, text), duplicated |-> d] :
                      text \in NameTexts, d \in DuplicatedChoices(n, cols)} :
                    cols \in {Blocks(QualityShapes(n), copies) :
                                 copies \in [1..Len(QualityShapes(n)) -> CopyChoices(n)]}
                             \ {<<>>}} :
             n \in {0, 1, 2, BlockRows}}

TargetShapes ==
    {Shape("categorical", BlockRows - 10, 10, 0),
     Shape("numeric", BlockRows - 1, 0, 1),
     Shape("categorical", 2, 0, BlockRows - 2)}
TargetTables ==
    UNION {{[rows |-> BlockRows, columns |-> Named(cols, "feature"),
             duplicated |-> SetMax(DuplicatedChoices(BlockRows, cols))] :
               cols \in [1..k -> TargetShapes]} : k \in 1..MaxTargetColumns}

ProfileInit ==
    /\ table \in QualityTables \cup TargetTables
    /\ profile = None
    /\ active_sessions = <<>>
    /\ file_hash_to_session = <<>>
    /\ request = None
    /\ response = None
    /\ now = 0
    /\ memory = <<>>
    /\ prepared = NothingPrepared
    /\ estimator = None
    /\ pc = "analyze_dataset"
    /\ df = [numeric |-> FALSE, target |-> EmptyBag]
    /\ selected_models = <<>>
    /\ i = 0
    /\ problem_type = "unset"
    /\ data_shape = [train |-> 0, test |-> 0]
    /\ results = <<>>
    /\ error = None
    /\ events = <<>>
    /\ report = None
    /\ classified = <<>>
    /\ problem_type_arg = "None"
    /\ openai_api_key = FALSE
    /\ model_comparison = <<>>
    /\ payload = None
    /\ config = DefaultConfig
    /\ split_args = None

ProfileNext == AnalyzeDataset

ProfileSpec == ProfileInit /\ [][ProfileNext]_vars

----------------------------------------------------------------------------
(* main.py: the HTTP handlers and the session store *)

\* HTTPException(status_code, detail)
HTTPException(status_code, detail) ==
    [type |-> "HTTPException", status_code |-> status_code, detail |-> detail]

\* what the client receives when a handler raises e: FastAPI answers an
\* HTTPException with its own status code
Raised(e) == [status |-> e.status_code, detail |-> e.detail]
\* what the client receives when a handler returns body
Returned(body) == [status |-> 200, body |-> body]

\* except Exception as e: raise HTTPException(status_code=500,
\* detail=f"<prefix>: {str(e)}"); HTTPException is an Exception, so one
\* raised inside the try block is caught here as well
ExceptException(prefix, e) ==
    HTTPException(500, [prefix |-> prefix, cause |-> e])

SessionNotFound == HTTPException(404, "Session not found")
UnsupportedFileType ==
    HTTPException(400, "Unsupported file type. Please upload CSV, XLSX, or JSON files.")

\* file.filename.endswith(('.csv', '.xlsx', '.json')); a filename is modelled
\* as its stem and its suffix
AcceptedSuffixes == {".csv", ".xlsx", ".json"}
endswith(filename, suffixes) == filename.suffix \in suffixes

\* hashlib.md5(content).hexdigest()
calculate_file_hash(content) == content.hash

\* pd.read_csv / pd.read_json on the decoded content: the parsed dataset, or
\* the parser's exception for a file without columns
ParseError == [type |-> "EmptyDataError", what |-> "No columns to parse from file"]
read_file(content) ==
    IF content.readable THEN [raised |-> None, df |-> content.df]
    ELSE [raised |-> ParseError]

\* the dataset of an upload as the profiler sees it, as far as it is modelled:
\* the target column alone
TableOf(d) ==
    [rows |-> len(d.target),
     columns |-> <<[name |-> [text |-> "feature", no |-> 1],
                    kind |-> IF d.numeric THEN "numeric" ELSE "categorical",
                    cells |-> d.target]>>,
     duplicated |-> len(d.target) - Cardinality(BagToSet(d.target))]

\* lines 164-201 for a list of valid names: outs[j] is what fit, predict and
\* the metric functions did for selected[j]
train_loop(selected, outs, pt) ==
    LET R[j \in 0..Len(selected)] ==
            IF j = 0 THEN <<>>
            ELSE IF outs[j].ok
                 THEN DictSet(R[j - 1], selected[j],
                              SuccessResult(selected[j], outs[j], pt))
                 ELSE ExceptHandler(R[j - 1], selected[j], outs[j].msg)
    IN  R[Len(selected)]

\* AutoMLOrchestrator.train_models as one call (lines 133-211): the exception
\* it raises, or the dict it returns
train_models(d, selected, cfg, outs) ==
    LET n == len(d.target)
    IN  IF n = 0 THEN [raised |-> ZeroDivisionError]
        ELSE LET s == train_test_split(n, small_dataset_test_size(n, cfg.test_size))
                 pt == _determine_problem_type(d)
                 bad == invalid_models(selected, pt)
             IN  IF ~s.ok THEN [raised |-> SplitError]
                 ELSE IF bad # <<>> THEN [raised |-> InvalidModelsError(bad, pt)]
                 ELSE [raised |-> None,
                       value |-> [results |-> train_loop(selected, outs, pt),
                                  problem_type |-> pt,
                                  data_shape |-> [train |-> s.train, test |-> s.test]]]

\* what the estimators of one train-model request can do for one model
ServerOutcomes(pt) ==
    {PlainOutcome(pt),
     [ok |-> FALSE, time |-> 0, raw |-> [k \in MetricKeys(pt) |-> None],
      msg |-> "fit failed"]}

is_duplicate_never(file_hash) == FALSE

\* lines 85-87: the hash is mapped to a session that is still stored
is_duplicate(file_hash) ==
    /\ DictHas(file_hash_to_session, file_hash)
    /\ DictHas(active_sessions, DictGet(file_hash_to_session, file_hash))

WithTrainingResults_dropped(session_data, training_results) == session_data

\* session_data["training_results"] = training_results
WithTrainingResults(session_data, training_results) ==
    [k \in DOMAIN session_data \cup {"training_results"} |->
        IF k = "training_results" THEN training_results ELSE session_data[k]]

\* the orchestrator, the profiler and the chart generator keep no state
\* between requests
Stateless ==
    UNCHANGED <<df, pc, i, problem_type, events, trainState, suggestState,
                profilerState, auxState>>

\* lines 70-136: POST /api/upload-data
upload_data(file) ==
    /\ pc = "serving"
    /\ request' = [route |-> "upload-data", filename |-> file.filename,
                   content |-> file.content]
    /\ LET file_hash == calculate_file_hash(file.content)
           parsed == read_file(file.content)
           session_id == now
       IN  IF ~endswith(file.filename, AcceptedSuffixes)
           THEN /\ response' = Raised(ExceptException("Error processing file",
                                                      UnsupportedFileType))
                /\ UNCHANGED <<active_sessions, file_hash_to_session>>
           ELSE IF is_duplicate(file_hash)
           THEN LET existing_session_id == DictGet(file_hash_to_session, file_hash)
                    session_data == DictGet(active_sessions, existing_session_id)
                IN  /\ response' = Returned([session_id |-> existing_session_id,
                                             filename |-> session_data.filename,
                                             analysis |-> session_data.analysis,
                                             is_duplicate |-> TRUE])
                    /\ UNCHANGED <<active_sessions, file_hash_to_session>>
           ELSE IF parsed.raised # None
           THEN /\ response' = Raised(ExceptException("Error processing file",
                                                      parsed.raised))
                /\ UNCHANGED <<active_sessions, file_hash_to_session>>
           ELSE LET processed_data == analyze_dataset(TableOf(parsed.df))
                IN  /\ active_sessions' =
                           DictSet(active_sessions, session_id,
                                   [data |-> parsed.df,
                                    analysis |-> processed_data,
                                    uploaded_at |-> now,
                                    filename |-> file.filename,
                                    file_hash |-> file_hash])
                    /\ file_hash_to_session' =
                           DictSet(file_hash_to_session, file_hash, session_id)
                    /\ response' = Returned([session_id |-> session_id,
                                             filename |-> file.filename,
                                             analysis |-> processed_data,
                                             is_duplicate |-> FALSE])
    /\ UNCHANGED now
    /\ Stateless

\* lines 138-164: POST /api/suggest-models/{session_id}; the orchestrator's
\* suggest_models returns a payload for every dataset
suggest_models(session_id) ==
    /\ pc = "serving"
    /\ request' = [route |-> "suggest-models", session_id |-> session_id]
    /\ IF ~DictHas(active_sessions, session_id)
       THEN response' = Raised(ExceptException("Error generating suggestions",
                                               SessionNotFound))
       ELSE response' = Returned([session_id |-> session_id,
                                  suggestions |-> "payload"])
    /\ UNCHANGED <<active_sessions, file_hash_to_session, now>>
    /\ Stateless

\* lines 166-194: POST /api/train-model/{session_id}, the route registered
\* first for this path
train_model(session_id, selected, cfg) ==
    /\ pc = "serving"
    /\ request' = [route |-> "train-model", session_id |-> session_id,
                   selected_models |-> selected, train_config |-> cfg]
    /\ IF ~DictHas(active_sessions, session_id)
       THEN /\ response' = Raised(ExceptException("Training failed",
                                                  SessionNotFound))
            /\ UNCHANGED active_sessions
       ELSE LET session_data == DictGet(active_sessions, session_id)
            IN  \E outs \in [1..Len(selected) ->
                               ServerOutcomes(_determine_problem_type(session_data.data))] :
                   LET training_results ==
                           train_models(session_data.data, selected, cfg, outs)
                   IN  IF training_results.raised # None
                       THEN /\ response' =
                                   Raised(ExceptException("Training failed",
                                                          training_results.raised))
                            /\ UNCHANGED active_sessions
                       ELSE /\ active_sessions' =
                                   DictSet(active_sessions, session_id,
                                           WithTrainingResults(session_data,
                                                               training_results.value))
                            /\ response' =
                                   Returned([session_id |-> session_id,
                                             results |-> training_results.value])
    /\ UNCHANGED <<file_hash_to_session, now>>
    /\ Stateless

\* lines 231-255: GET /api/generate-charts/{session_id}; the chart generator
\* returns a dict for every dataset
generate_charts(session_id) ==
    /\ pc = "serving"
    /\ request' = [route |-> "generate-charts", session_id |-> session_id]
    /\ IF ~DictHas(active_sessions, session_id)
       THEN response' = Raised(ExceptException("Error generating charts",
                                               SessionNotFound))
       ELSE response' = Returned([session_id |-> session_id, charts |-> "charts"])
    /\ UNCHANGED <<active_sessions, file_hash_to_session, now>>
    /\ Stateless

\* lines 257-270: GET /api/sessions
get_sessions ==
    /\ pc = "serving"
    /\ request' = [route |-> "sessions"]
    /\ response' =
           Returned([sessions |->
                        [j \in 1..Len(active_sessions) |->
                            [session_id |-> active_sessions[j][1],
                             filename |-> active_sessions[j][2].filename,
                             uploaded_at |-> active_sessions[j][2].uploaded_at,
                             has_results |->
                                 "training_results" \in DOMAIN active_sessions[j][2]]]])
    /\ UNCHANGED <<active_sessions, file_hash_to_session, now>>
    /\ Stateless

\* lines 272-286: GET /api/session/{session_id}; the check is outside any try
get_session(session_id) ==
    /\ pc = "serving"
    /\ request' = [route |-> "session", session_id |-> session_id]
    /\ IF ~DictHas(active_sessions, session_id)
       THEN response' = Raised(SessionNotFound)
       ELSE LET session_data == DictGet(active_sessions, session_id)
            IN  response' =
                    Returned([session_id |-> session_id,
                              filename |-> session_data.filename,
                              uploaded_at |-> session_data.uploaded_at,
                              analysis |-> session_data.analysis,
                              has_results |-> "training_results" \in DOMAIN session_data])
    /\ UNCHANGED <<active_sessions, file_hash_to_session, now>>
    /\ Stateless

\* the wall clock reaches the next second
MaxClock == 1
Tick ==
    /\ pc = "serving"
    /\ now < MaxClock
    /\ now' = now + 1
    /\ UNCHANGED <<active_sessions, file_hash_to_session, request, response>>
    /\ Stateless

\* the uploads, session ids and train requests the clients send
Filenames == {[stem |-> "data", suffix |-> x] : x \in {".csv", ".json", ".txt"}}
FileContents ==
    {[hash |-> "h1", readable |-> TRUE,
      df |-> [numeric |-> FALSE, target |-> Cells(BlockRows - 10, 10, 0)]],
     [hash |-> "h2", readable |-> TRUE,
      df |-> [numeric |-> FALSE, target |-> EmptyBag]],
     [hash |-> "h3", readable |-> FALSE,
      df |-> [numeric |-> FALSE, target |-> EmptyBag]]}
Files == [filename : Filenames, content : FileContents]
SessionIds == 0..MaxClock
TrainRequests == Requests(1)

ServerInit ==
    /\ active_sessions = <<>>
    /\ file_hash_to_session = <<>>
    /\ request = None
    /\ response = None
    /\ now = 0
    /\ memory = <<>>
    /\ prepared = NothingPrepared
    /\ estimator = None
    /\ pc = "serving"
    /\ df = [numeric |-> FALSE, target |-> EmptyBag]
    /\ selected_models = <<>>
    /\ i = 0
    /\ problem_type = "unset"
    /\ data_shape = [train |-> 0, test |-> 0]
    /\ results = <<>>
    /\ error = None
    /\ events = <<>>
    /\ report = None
    /\ classified = <<>>
    /\ problem_type_arg = "None"
    /\ openai_api_key = FALSE
    /\ model_comparison = <<>>
    /\ payload = None
    /\ config = DefaultConfig
    /\ split_args = None
    /\ table = NoTable
    /\ profile = None

ServerNext ==
    \/ \E file \in Files : upload_data(file)
    \/ \E session_id \in SessionIds : suggest_models(session_id)
    \/ \E session_id \in SessionIds, selected \in TrainRequests :
          train_model(session_id, selected, DefaultConfig)
    \/ \E session_id \in SessionIds : generate_charts(session_id)
    \/ get_sessions
    \/ \E session_id \in SessionIds : get_session(session_id)
    \/ Tick

ServerSpec == ServerInit /\ [][ServerNext]_vars

----------------------------------------------------------------------------
(* The insight rules: compare_models applied to classification results that
   carry the train and test accuracy *)

\* a gap of 50, a gap of exactly 10 (hundredths), no gap, and null values
InsightResults ==
    {[status |-> "success", training_time |-> Fin(t),
      metrics |-> [accuracy |-> a, f1_score |-> Fin(40),
                   train_accuracy |-> tr, test_accuracy |-> te]] :
        t \in Times, a \in FiniteScores,
        tr \in {Fin(90), None}, te \in {Fin(40), Fin(80), None}}
    \cup ErrorResults

InsightMaps(n) ==
    UNION {{[j \in 1..k |-> <<names[j], recs[j]>>] :
               names \in {f \in [1..k -> RankNames] :
                             \A a, b \in 1..k : a # b => f[a] # f[b]},
               recs \in [1..k -> InsightResults]} : k \in 0..n}

InsightInit ==
    /\ results \in InsightMaps(MaxResults)
    /\ pc = "compare_models"
    /\ df = [numeric |-> FALSE, target |-> EmptyBag]
    /\ selected_models = <<>>
    /\ i = 0
    /\ problem_type = "unset"
    /\ data_shape = [train |-> 0, test |-> 0]
    /\ error = None
    /\ events = <<>>
    /\ report = None
    /\ classified = <<>>
    /\ problem_type_arg = "None"
    /\ openai_api_key = FALSE
    /\ model_comparison = <<>>
    /\ payload = None
    /\ config = DefaultConfig
    /\ split_args = None
    /\ table = NoTable
    /\ profile = None
    /\ active_sessions = <<>>
    /\ file_hash_to_session = <<>>
    /\ request = None
    /\ response = None
    /\ now = 0
    /\ memory = <<>>
    /\ prepared = NothingPrepared
    /\ estimator = None

InsightNext == CompareModels

InsightSpec == InsightInit /\ [][InsightNext]_vars

----------------------------------------------------------------------------
(* _get_feature_importance on a fitted estimator *)

\* an attribute of the estimator: "absent" (hasattr is False), "raises" (the
\* property raises something other than AttributeError), "vector" (one value
\* per feature: values[1]) or "matrix" (one row per output: values[r])
NoAttribute == [kind |-> "absent", values |-> <<>>]
RaisingAttribute == [kind |-> "raises", values |-> <<>>]

Abs(x) == IF x < 0 THEN -x ELSE x
np_abs_signed(x) == x

\* np.abs on a float
np_abs(x) == IF x.tag = "float" THEN Fin(Abs(x.val)) ELSE x

\* np.abs(coef).mean(axis=0): per feature, the mean over the rows
mean_abs(rows, j) ==
    LET Sum[r \in 0..Len(rows)] ==
            IF r = 0 THEN 0 ELSE Sum[r - 1] + np_abs(rows[r][j]).val
    IN  Fin(Sum[Len(rows)] \div Len(rows))

\* {str(name): clean_nan_values(float(imp)) for name, imp in zip(names, vec)}
keyed_by_feature(feature_names, vec) ==
    [j \in 1..(IF Len(vec) < Len(feature_names) THEN Len(vec) ELSE Len(feature_names)) |->
        <<feature_names[j], clean_nan_values(vec[j])>>]

\* lines 276-298; the bare except turns any exception into the empty dict
feature_importance_of(model, feature_names) ==
    IF model.feature_importances_.kind = "raises" THEN <<>>
    ELSE IF model.feature_importances_.kind = "vector"
    THEN keyed_by_feature(feature_names, model.feature_importances_.values[1])
    ELSE IF model.coef_.kind = "raises" THEN <<>>
    ELSE IF model.coef_.kind = "matrix"
    THEN keyed_by_feature(feature_names,
                          [j \in 1..Len(feature_names) |->
                              np_abs(mean_abs(model.coef_.values, j))])
    ELSE IF model.coef_.kind = "vector"
    THEN keyed_by_feature(feature_names,
                          [j \in 1..Len(feature_names) |->
                              np_abs(model.coef_.values[1][j])])
    ELSE <<>>

\* lines 186-194 for the fitted model of one loop iteration: the metrics, the
\* feature importance and the success record
RecordImportance ==
    /\ pc = "fitted"
    /\ results' =
           DictSet(results, estimator.name,
                   [SuccessResult(estimator.name, PlainOutcome("classification"),
                                  "classification")
                       EXCEPT !.feature_importance =
                                  feature_importance_of(estimator,
                                                        estimator.feature_names)])
    /\ pc' = "recorded"
    /\ UNCHANGED <<df, auxState, serverState, profilerState, selected_models, config,
                   split_args, i, problem_type, data_shape, error, events, report,
                   classified, suggestState>>

\* the estimators: importances in hundredths, coefficients even so that the
\* mean over one or two rows is whole
FeatureNameLists == {<<"f1">>, <<"f1", "f2">>}
ImportanceValues == {Fin(0), Fin(60), NaN}
CoefValues == {Fin(-4), Fin(0), Fin(6)}
ImportanceAttributes(k) ==
    {NoAttribute, RaisingAttribute}
    \cup {[kind |-> "vector", values |-> <<v>>] : v \in [1..k -> ImportanceValues]}
CoefAttributes(k) ==
    {NoAttribute, RaisingAttribute}
    \cup {[kind |-> "vector", values |-> <<v>>] : v \in [1..k -> CoefValues]}
    \cup UNION {{[kind |-> "matrix", values |-> m] :
                    m \in [1..r -> [1..k -> CoefValues]]} : r \in 1..2}
Estimators ==
    UNION {{[name |-> "random_forest", feature_names |-> names,
             feature_importances_ |-> a, coef_ |-> c] :
               a \in ImportanceAttributes(Len(names)),
               c \in CoefAttributes(Len(names))} : names \in FeatureNameLists}

ImportanceInit ==
    /\ estimator \in Estimators
    /\ pc = "fitted"
    /\ df = [numeric |-> FALSE, target |-> EmptyBag]
    /\ selected_models = <<>>
    /\ i = 0
    /\ problem_type = "classification"
    /\ data_shape = [train |-> 0, test |-> 0]
    /\ results = <<>>
    /\ error = None
    /\ events = <<>>
    /\ report = None
    /\ classified = <<>>
    /\ problem_type_arg = "None"
    /\ openai_api_key = FALSE
    /\ model_comparison = <<>>
    /\ payload = None
    /\ config = DefaultConfig
    /\ split_args = None
    /\ table = NoTable
    /\ profile = None
    /\ active_sessions = <<>>
    /\ file_hash_to_session = <<>>
    /\ request = None
    /\ response = None
    /\ now = 0
    /\ memory = <<>>
    /\ prepared = NothingPrepared

ImportanceNext == RecordImportance

ImportanceSpec == ImportanceInit /\ [][ImportanceNext]_vars

----------------------------------------------------------------------------
(* Preprocessing: _prepare_data, _preprocess_features and preprocess_data *)

\* A DataFrame is a sequence of columns [name, kind, cells]; the cells of a
\* numeric column are fractions <<numerator, denominator>>, those of a
\* categorical column are strings. memory holds the DataFrame objects by id.
NaNCell == <<0, 0>>
NA == "<NA>"
Whole(v) == <<v, 1>>
isnull(col, j) ==
    IF col.kind = "numeric" THEN col.cells[j] = NaNCell ELSE col.cells[j] = NA

GCD(a, b) ==
    LET G[x \in 0..a, y \in 0..b] ==
            IF y = 0 THEN x ELSE IF x = 0 THEN y
            ELSE IF x >= y THEN G[x - y, y] ELSE G[x, y - x]
    IN  G[a, b]
Fraction(n, d) == LET g == GCD(n, d) IN <<n \div g, d \div g>>

\* Series.mean(): over the cells present (whole numbers before imputation);
\* NaN when none is present
mean(col) ==
    LET present == SelectSeq(col.cells, LAMBDA c : c # NaNCell)
        Sum[j \in 0..Len(present)] ==
            IF j = 0 THEN 0 ELSE Sum[j - 1] + present[j][1]
    IN  IF present = <<>> THEN NaNCell
        ELSE Fraction(Sum[Len(present)], Len(present))

\* the order of Python strings among the values used
StringOrder == <<"Unknown", "a", "nan", "z">>
Rank(s) == CHOOSE k \in 1..Len(StringOrder) : StringOrder[k] = s
\* the index of s among the sorted distinct strings of values
IndexIn(values, s) == Cardinality({Rank(v) : v \in values} \cap 1..(Rank(s) - 1))

\* Series.astype(str): a missing cell becomes the string "nan"
astype_str(c) == IF c = NA THEN "nan" ELSE c

\* lines 124-125: LabelEncoder().fit_transform(X_processed[col].astype(str))
label_encode(col) ==
    LET strs == {astype_str(col.cells[j]) : j \in 1..Len(col.cells)}
    IN  [name |-> col.name, kind |-> "numeric",
         cells |-> [j \in 1..Len(col.cells) |->
                       Whole(IndexIn(strs, astype_str(col.cells[j])))]]

\* pd.Categorical(col).codes: the categories are the sorted distinct values
\* present; a missing cell has code -1
categorical_codes(col) ==
    LET categories == {col.cells[j] : j \in 1..Len(col.cells)} \ {NA}
    IN  [name |-> col.name, kind |-> "numeric",
         cells |-> [j \in 1..Len(col.cells) |->
                       IF col.cells[j] = NA THEN Whole(-1)
                       ELSE Whole(IndexIn(categories, col.cells[j]))]]

\* DataFrame.fillna(value) for one column: NaN cells take value, and stay NaN
\* when value is NaN itself
fill_column(col, value) ==
    [col EXCEPT !.cells = [j \in 1..Len(col.cells) |->
                              IF col.cells[j] = NaNCell THEN value ELSE col.cells[j]]]

\* X.fillna(X.mean()) on a frame whose columns are all numeric
fillna_mean(frame) == [j \in 1..Len(frame) |-> fill_column(frame[j], mean(frame[j]))]

\* the objects a call creates
drop_in_place(mem, id, target_column) ==
    [mem |-> [mem EXCEPT ![id] = SelectSeq(mem[id], LAMBDA c : c.name # target_column)],
     id |-> id]

\* df.drop(columns=[target_column]): a new DataFrame without the column
drop(mem, id, target_column) ==
    [mem |-> Append(mem, SelectSeq(mem[id], LAMBDA c : c.name # target_column)),
     id |-> Len(mem) + 1]

\* X.copy(): a new DataFrame with the same columns
copy(mem, id) == [mem |-> Append(mem, mem[id]), id |-> Len(mem) + 1]

\* X_processed[col] = ... for every categorical column, on the object id
encode_columns(mem, id, encoder) ==
    [mem EXCEPT ![id] = [j \in 1..Len(mem[id]) |->
                            IF mem[id][j].kind = "categorical"
                            THEN IF encoder = "LabelEncoder"
                                 THEN label_encode(mem[id][j])
                                 ELSE categorical_codes(mem[id][j])
                            ELSE mem[id][j]]]

\* lines 107-131: the objects after the call and the id of X_processed
_prepare_data(mem, df_id, target_column) ==
    LET X == drop(mem, df_id, target_column)
        X_processed == copy(X.mem, X.id)
        encoded == encode_columns(X_processed.mem, X_processed.id, "LabelEncoder")
        numeric_count == Len(encoded[X_processed.id])
        filled == IF numeric_count > 0 THEN fillna_mean(encoded[X_processed.id])
                  ELSE encoded[X_processed.id]
    IN  [mem |-> Append(encoded, filled), id |-> Len(encoded) + 1]

\* lines 225-236
_preprocess_features(mem, X_id) ==
    LET X_processed == copy(mem, X_id)
        encoded == encode_columns(X_processed.mem, X_processed.id, "pd.Categorical")
    IN  [mem |-> Append(encoded, fillna_mean(encoded[X_processed.id])),
         id |-> Len(encoded) + 1]

\* _quick_model_comparison, lines 344-349
quick_preprocess(mem, df_id, target_column) ==
    LET X == drop(mem, df_id, target_column)
    IN  _preprocess_features(X.mem, X.id)

\* Series.mode().iloc[0]: the first of the most frequent values in sorted
\* order, "Unknown" when no value is present
mode_value(col) ==
    LET values == {col.cells[j] : j \in 1..Len(col.cells)} \ {NA}
        count(v) == Cardinality({j \in 1..Len(col.cells) : col.cells[j] = v})
        most == {v \in values : \A w \in values : count(v) >= count(w)}
    IN  IF values = {} THEN "Unknown"
        ELSE CHOOSE v \in most : \A w \in most : Rank(v) <= Rank(w)

\* data_processor.py lines 224-239 for one column: X[col].fillna(value,
\* inplace=True) fills the column of X, or a temporary Series when the
\* selection X[col] is a copy
fill_missing(col, in_place) ==
    IF ~in_place THEN col
    ELSE IF col.kind = "numeric" THEN fill_column(col, mean(col))
    ELSE [col EXCEPT !.cells = [j \in 1..Len(col.cells) |->
                                   IF col.cells[j] = NA THEN mode_value(col)
                                   ELSE col.cells[j]]]

\* DataProcessor.preprocess_data with the default configuration, lines 210-271
preprocess_data(mem, df_id, target_column, in_place) ==
    LET X == drop(mem, df_id, target_column)
        filled == [X.mem EXCEPT ![X.id] =
                      [j \in 1..Len(X.mem[X.id]) |->
                          fill_missing(X.mem[X.id][j], in_place)]]
    IN  [mem |-> encode_columns(filled, X.id, "pd.Categorical"), id |-> X.id]

TargetColumn == "target"

\* train_models calls _prepare_data on the caller's dataset
PrepareData ==
    /\ pc = "loaded"
    /\ ~prepared.train.done
    /\ LET r == _prepare_data(memory, 1, TargetColumn)
       IN  /\ memory' = r.mem
           /\ prepared' = [prepared EXCEPT !.train = [done |-> TRUE, X |-> r.mem[r.id]]]
    /\ UNCHANGED <<df, estimator, serverState, profilerState, pc, i, problem_type,
                   events, trainState, suggestState>>

\* suggest_models calls _quick_model_comparison on the caller's dataset
QuickPreprocess ==
    /\ pc = "loaded"
    /\ ~prepared.suggest.done
    /\ LET r == quick_preprocess(memory, 1, TargetColumn)
       IN  /\ memory' = r.mem
           /\ prepared' = [prepared EXCEPT !.suggest = [done |-> TRUE, X |-> r.mem[r.id]]]
    /\ UNCHANGED <<df, estimator, serverState, profilerState, pc, i, problem_type,
                   events, trainState, suggestState>>

\* DataProcessor.preprocess_data is called on the caller's dataset
PreprocessData ==
    /\ pc = "loaded"
    /\ ~prepared.processor.done
    /\ \E in_place \in BOOLEAN :
          LET r == preprocess_data(memory, 1, TargetColumn, in_place)
          IN  /\ memory' = r.mem
              /\ prepared' = [prepared EXCEPT
                                 !.processor = [done |-> TRUE, X |-> r.mem[r.id]]]
    /\ UNCHANGED <<df, estimator, serverState, profilerState, pc, i, problem_type,
                   events, trainState, suggestState>>

\* the caller's datasets: up to two feature columns and the target column
MaxFrameRows == 2
NumericCells == {Whole(1), Whole(4), NaNCell}
CategoricalCells == {"a", "z", NA}
FeatureColumns(name, n) ==
    {[name |-> name, kind |-> "numeric", cells |-> c] : c \in [1..n -> NumericCells]}
    \cup {[name |-> name, kind |-> "categorical", cells |-> c] :
             c \in [1..n -> CategoricalCells]}
TargetColumns(n) ==
    {[name |-> TargetColumn, kind |-> "categorical",
      cells |-> [j \in 1..n |-> IF j = 1 THEN "a" ELSE "z"]]}
Frames ==
    UNION {{<<t>> : t \in TargetColumns(n)}
           \cup {<<f, t>> : f \in FeatureColumns("f1", n), t \in TargetColumns(n)}
           \cup {<<f, t, g>> : f \in FeatureColumns("f1", n), t \in TargetColumns(n),
                               g \in FeatureColumns("f2", n)} : n \in 1..MaxFrameRows}

PrepInit ==
    /\ memory \in {<<frame>> : frame \in Frames}
    /\ prepared = NothingPrepared
    /\ pc = "loaded"
    /\ estimator = None
    /\ df = [numeric |-> FALSE, target |-> EmptyBag]
    /\ selected_models = <<>>
    /\ i = 0
    /\ problem_type = "unset"
    /\ data_shape = [train |-> 0, test |-> 0]
    /\ results = <<>>
    /\ error = None
    /\ events = <<>>
    /\ report = None
    /\ classified = <<>>
    /\ problem_type_arg = "None"
    /\ openai_api_key = FALSE
    /\ model_comparison = <<>>
    /\ payload = None
    /\ config = DefaultConfig
    /\ split_args = None
    /\ table = NoTable
    /\ profile = None
    /\ active_sessions = <<>>
    /\ file_hash_to_session = <<>>
    /\ request = None
    /\ response = None
    /\ now = 0

PrepNext == PrepareData \/ QuickPreprocess \/ PreprocessData

PrepSpec == PrepInit /\ [][PrepNext]_vars

----------------------------------------------------------------------------
(* Properties of the training pipeline *)

RequestedNames == {selected_models[j] : j \in 1..Len(selected_models)}
\* the last iteration among the first n that trained model m
LastRun(m, n) ==
    CHOOSE j \in 1..n :
        selected_models[j] = m /\ \A k \in (j + 1)..n : selected_models[k] # m
Rows(d) == BagCardinality(d.target)
DistinctValues(d) == Cardinality({v \in DOMAIN d.target : v # "nan"})

\* C1: a train_models call whose names are all valid returns one result per
\* requested model whatever fit, predict or the metrics raise: after n
\* iterations the result map holds exactly the models of the first n entries,
\* each with status error and the message of its failure when its (last) run
\* raised and status success otherwise; the call returns only after every
\* entry was run, and never raises because of a model.
C1_FailureIsolated ==
    /\ pc \in {"loop", "returned"} =>
          LET n == Len(events)
              done == {selected_models[j] : j \in 1..n}
          IN  /\ n = i - 1
              /\ Len(results) = Cardinality(done)
              /\ \A m \in done :
                    /\ DictHas(results, m)
                    /\ LET r == DictGet(results, m)
                           o == events[LastRun(m, n)]
                       IN  IF o.ok
                           THEN r.status = "success" /\ "error" \notin DOMAIN r
                           ELSE r.status = "error" /\ r.error = o.msg
    /\ pc = "returned" =>
          /\ Len(events) = Len(selected_models)
          /\ Len(results) = Cardinality(RequestedNames)
    /\ pc = "raised" => events = <<>>

\* a batch of two models returned with one failure and one success
C1_Witness ==
    /\ pc = "returned"
    /\ Len(results) = 2
    /\ \E j, k \in 1..Len(events) : ~events[j].ok /\ events[k].ok
    /\ \E j, k \in 1..Len(results) :
          results[j][2].status = "error" /\ results[k][2].status = "success"

ResolvedType == _determine_problem_type(df)
UnknownNames ==
    {m \in RequestedNames : ~InList(m, model_dict(ResolvedType))}
HasUnknown ==
    ResolvedType \in {"classification", "regression"} /\ UnknownNames # {}
ErrorNamesUnknown ==
    /\ "invalid" \in DOMAIN error
    /\ {error.invalid[j] : j \in 1..Len(error.invalid)} = UnknownNames
    /\ error.problem_type = ResolvedType
    /\ error.available = model_dict(ResolvedType)
    /\ ResolvedType = "regression" =>
          error.available = <<"random_forest", "linear_regression", "svm",
                              "decision_tree", "xgboost", "lightgbm">>

\* C2 (as stated): a request with an unknown model name always ends in the
\* request error that names exactly the unknown names and lists the registry,
\* and fits nothing.
C2_AlwaysNamesUnknown ==
    (HasUnknown /\ pc \in {"raised", "returned"}) =>
        /\ pc = "raised"
        /\ ErrorNamesUnknown
        /\ results = <<>> /\ events = <<>>

\* C2 (amended): a request with an unknown model name never reaches the
\* training loop: no model is fitted, no result is produced and the call ends
\* in a request error; when preparing and splitting the data succeeded, that
\* error names exactly the unknown names and lists the registry of the
\* resolved problem type in insertion order; otherwise it is the error of
\* the split.
C2_UnknownNameIsRequestError ==
    HasUnknown =>
        /\ pc \notin {"loop", "returned"}
        /\ results = <<>> /\ events = <<>>
        /\ pc = "raised" =>
              IF data_shape.train > 0
              THEN ErrorNamesUnknown
              ELSE error \in {SplitError, ZeroDivisionError}

\* the scenario of the specification: linear_regression and made_up_model
\* requested for a regression target
C2_Witness ==
    /\ selected_models = <<"linear_regression", "made_up_model">>
    /\ pc = "raised"
    /\ problem_type = "regression"
    /\ "invalid" \in DOMAIN error
    /\ error.invalid = <<"made_up_model">>

ExpectedType(d) ==
    IF d.numeric /\ 20 * DistinctValues(d) > Rows(d)
    THEN "regression" ELSE "classification"

\* C3: for a dataset with at least one row, classify returns regression
\* exactly when the target is numeric and distinct values / rows > 0.05, and
\* classification otherwise; every repeated call returns that type and
\* train_models reports it.
C3_Classify ==
    Rows(df) >= 1 =>
        /\ \A j \in 1..Len(classified) : classified[j] = ExpectedType(df)
        /\ problem_type # "unset" => problem_type = ExpectedType(df)

\* one distinct value in BlockRows rows, classified twice and trained
C3_Witness ==
    /\ df.numeric
    /\ DistinctValues(df) = 1 /\ Rows(df) = 20
    /\ Len(classified) = 2
    /\ classified[1] = "classification"
    /\ pc = "returned" /\ problem_type = "classification"

\* C4: every metric of a success result is a finite number or null.
C4_MetricsFiniteOrNull ==
    \A j \in 1..Len(results) :
        results[j][2].status = "success" =>
            \A k \in DOMAIN results[j][2].metrics :
                results[j][2].metrics[k].tag \in {"float", "None"}

\* a success result whose metric function returned an infinite value
C4_Witness ==
    \E j \in 1..Len(results) :
        /\ results[j][2].status = "success"
        /\ \E k \in DOMAIN results[j][2].metrics :
              /\ results[j][2].metrics[k] = None
              /\ \E e \in 1..Len(events) :
                    events[e].ok /\ isinf(events[e].raw[k])

----------------------------------------------------------------------------
(* Properties of the ranker *)

SuccessNames(map) ==
    LET ok == SelectSeq(map, LAMBDA e : IsSuccess(e[2]))
    IN  [j \in 1..Len(ok) |-> ok[j][1]]
\* the position of a key in a dict
Pos(map, name) == CHOOSE j \in 1..Len(map) : map[j][1] = name
IsReport(r) == "ranking" \in DOMAIN r

\* C5: for a result map with at least one success, compare_models returns a
\* ranking that is a permutation of the successful models with ranks 1..k,
\* ordered by primary score descending, models of equal score in the order
\* of the map.
C5_RankingIsStablePermutation ==
    (pc = "compared" /\ SuccessNames(results) # <<>>) =>
        /\ IsReport(report)
        /\ LET rk == report.ranking
               names == SuccessNames(results)
           IN  /\ Len(rk) = Len(names)
               /\ {rk[j].model : j \in 1..Len(rk)}
                     = {names[j] : j \in 1..Len(names)}
               /\ \A j \in 1..Len(rk) : rk[j].rank = j
               /\ \A j, k \in 1..Len(rk) :
                     (j < k /\ rk[j].primary_score.tag # "None"
                            /\ rk[k].primary_score.tag # "None") =>
                         /\ Num(rk[j].primary_score) >= Num(rk[k].primary_score)
                         /\ Num(rk[j].primary_score) = Num(rk[k].primary_score)
                               => Pos(results, rk[j].model) < Pos(results, rk[k].model)

\* C6: the comparison report of classification results names test accuracy
\* as its primary metric and is ordered by it; the report of regression
\* results names and uses R2.
C6_PrimaryMetricIsAccuracy ==
    (pc = "compared" /\ IsReport(report)) =>
        IF report.problem_type = "classification"
        THEN /\ report.primary_metric \in {"accuracy", "test_accuracy"}
             /\ \A j, k \in 1..Len(report.ranking) :
                   j < k =>
                     Num(Get(DictGet(results, report.ranking[j].model).metrics,
                             "accuracy", Fin(0)))
                     >= Num(Get(DictGet(results, report.ranking[k].model).metrics,
                                "accuracy", Fin(0)))
        ELSE report.primary_metric = "r2_score"

\* C7: compare_models on a map without any success returns a report with an
\* empty ranking and best_model null; a report of a map with a success has
\* the rank-1 model as best_model.
C7_NoSuccessGivesEmptyReport ==
    pc = "compared" =>
        IF SuccessNames(results) = <<>>
        THEN /\ IsReport(report)
             /\ report.ranking = <<>>
             /\ report.best_model = "None"
        ELSE IsReport(report) => report.best_model = report.ranking[1].model

\* C8: compare_models applied to what train_models returned, when it holds a
\* success, is a report of the problem type the pipeline resolved whose
\* ranking covers every successful model.
C8_PipelineFeedsRanker ==
    (pc = "compared" /\ selected_models # <<>> /\ SuccessNames(results) # <<>>) =>
        /\ IsReport(report)
        /\ report.problem_type = problem_type
        /\ {report.ranking[j].model : j \in 1..Len(report.ranking)}
              = {SuccessNames(results)[j] : j \in 1..Len(SuccessNames(results))}

----------------------------------------------------------------------------
(* Properties of suggest_models *)

NormalPayload ==
    /\ {"model_comparison", "performance_ranking", "rule_based_suggestions",
        "recommended_models", "llm_suggestions"} \subseteq DOMAIN payload
    /\ "error" \notin DOMAIN payload

\* C9: a suggest call that resolved its problem type returns the normal
\* payload without an error field, with or without a configured credential;
\* without one, llm_suggestions is null.
C9_AdvisoryNeverFatal ==
    (pc = "returned" /\ problem_type # "unset") =>
        /\ NormalPayload
        /\ ~openai_api_key => payload.llm_suggestions = None

\* C10: once the comparison run of a suggest call has ended, the call
\* eventually returns a payload that carries the recommendation.
C10_SuggestDelivers ==
    [](pc = "advisory" =>
          <>(pc = "returned" /\ "recommended_models" \in DOMAIN payload))

\* C11: the recommended_models of a returned suggest payload are the first
\* three names of its performance ranking, and, when that ranking is empty,
\* the hard-coded list of the problem type, never an empty list.
C11_RecommendedNeverEmpty ==
    (pc = "returned" /\ "recommended_models" \in DOMAIN payload) =>
        IF payload.performance_ranking # <<>>
        THEN payload.recommended_models = Take(payload.performance_ranking, 3)
        ELSE /\ payload.recommended_models # <<>>
             /\ payload.recommended_models
                   = _get_rule_based_suggestions(payload.problem_type).recommended_models

----------------------------------------------------------------------------
(* Properties of the per-model records *)

UndefinedR2(o) ==
    /\ o.ok
    /\ "r2_score" \in DOMAIN o.raw
    /\ o.raw["r2_score"].tag \in {"nan", "raises"}
InTrainingRun == selected_models # <<>> /\ pc \in {"loop", "returned"}
InComparisonRun == pc \in {"quick_loop", "advisory"} \/ payload # None

\* C12: a regression model whose fit and predictions completed and whose test
\* R2 is undefined is recorded with status success and r2_score null, in the
\* result map of train_models and in the comparison map of the suggestion
\* run; it is neither recorded as failed nor dropped.
C12_UndefinedR2IsSuccess ==
    /\ InTrainingRun =>
          \A j \in 1..Len(events) :
              (UndefinedR2(events[j]) /\ LastRun(selected_models[j], Len(events)) = j) =>
                  /\ DictHas(results, selected_models[j])
                  /\ DictGet(results, selected_models[j]).status = "success"
                  /\ DictGet(results, selected_models[j]).metrics["r2_score"] = None
    /\ (InComparisonRun /\ comparison_type = "regression") =>
          /\ Cardinality({j \in 1..Len(events) : events[j].ok})
                = Cardinality({j \in 1..Len(model_comparison) :
                                  model_comparison[j][2].status = "success"})
          /\ \A j \in 1..Len(model_comparison) :
                LET e == model_comparison[j][2]
                IN  (e.status = "success" /\ "r2_score" \in DOMAIN e.all_metrics) =>
                        e.all_metrics["r2_score"].tag \in {"float", "None"}

WellFormedRecord(r, metricsKey) ==
    /\ r.status \in {"success", "error"}
    /\ r.status = "success" =>
          /\ "training_time" \in DOMAIN r
          /\ metricsKey \in DOMAIN r
          /\ "error" \notin DOMAIN r
    /\ r.status = "error" =>
          /\ "error" \in DOMAIN r
          /\ metricsKey \notin DOMAIN r

\* C13: every per-model record of the training run and of the suggestion
\* comparison run has status success or error; a success record carries a
\* training time and a metrics map and no error message, an error record an
\* error message and no metrics.
C13_RecordStatusSuccessOrError ==
    /\ \A j \in 1..Len(results) : WellFormedRecord(results[j][2], "metrics")
    /\ \A j \in 1..Len(model_comparison) :
          WellFormedRecord(model_comparison[j][2], "all_metrics")

----------------------------------------------------------------------------
(* Properties of the split *)

SplitDone == pc # "train_models"
\* min(0.1, 1/n) as a fraction
IsShrunkFraction(ts, n) ==
    /\ ts \in {<<1, 10>>, <<1, n>>}
    /\ ts[1] * 10 <= ts[2] /\ ts[1] * n <= ts[2]
\* ceil(n * ts) test rows, the rest training rows, both at least one
ValidSplit(n, ts) ==
    /\ error \notin {SplitError, ZeroDivisionError}
    /\ data_shape.test >= 1 /\ data_shape.train >= 1
    /\ (data_shape.test - 1) * ts[2] < n * ts[1]
    /\ n * ts[1] <= data_shape.test * ts[2]
    /\ data_shape.train = n - data_shape.test
LargeUsesConfig ==
    (SplitDone /\ Rows(df) >= 10) =>
        split_args = [test_size |-> config.test_size,
                      random_state |-> config.random_state]

\* C14 (as stated): for 1 <= n <= 9 rows the test fraction handed to the
\* split is min(0.1, 1/n) and the split is valid (test rows = ceil(n x
\* fraction) >= 1, training rows = n - test rows >= 1), so the request does
\* not fail at the split; for n >= 10 the configured fraction and seed are
\* used unchanged.
C14_SmallDatasetSplit ==
    /\ (SplitDone /\ Rows(df) \in 1..9) =>
          /\ IsShrunkFraction(split_args.test_size, Rows(df))
          /\ ValidSplit(Rows(df), split_args.test_size)
    /\ LargeUsesConfig

\* C14 (amended): the same for 2 <= n <= 9; a dataset of one row gets the
\* fraction min(0.1, 1/n) as well, but its only row goes to the test split
\* and the request fails at the split with a ValueError.
C14_SmallDatasetSplitFromTwoRows ==
    /\ (SplitDone /\ Rows(df) \in 2..9) =>
          /\ IsShrunkFraction(split_args.test_size, Rows(df))
          /\ ValidSplit(Rows(df), split_args.test_size)
          /\ split_args.random_state = config.random_state
    /\ (SplitDone /\ Rows(df) = 1) =>
          /\ IsShrunkFraction(split_args.test_size, 1)
          /\ pc = "raised" /\ error = SplitError
          /\ results = <<>>
    /\ LargeUsesConfig

\* nine rows under a configured fraction of one half: split into 8 and 1
C14_Witness ==
    /\ Rows(df) = 9
    /\ config.test_size = <<1, 2>>
    /\ pc = "returned"
    /\ split_args.test_size = <<1, 10>>
    /\ data_shape = [train |-> 8, test |-> 1]

----------------------------------------------------------------------------
(* Properties of the profiler *)

Analyzed == pc = "analyzed"
ColumnIndexes == 1..Len(table.columns)
MissingCells ==
    LET S[j \in 0..Len(table.columns)] ==
            IF j = 0 THEN 0 ELSE S[j - 1] + CopiesIn("nan", table.columns[j].cells)
    IN  S[Len(table.columns)]
AllCells == table.rows * Len(table.columns)
PresentValues(col) == BagToSet(col.cells) \ {"nan"}
\* the deductions as the claim states them
DeductionM ==
    IF 10 * MissingCells > AllCells THEN 20
    ELSE IF 20 * MissingCells > AllCells THEN 10 ELSE 0
DeductionD ==
    IF 10 * table.duplicated > table.rows THEN 15
    ELSE IF 20 * table.duplicated > table.rows THEN 8 ELSE 0
LowVarianceColumns ==
    {j \in ColumnIndexes :
        /\ table.columns[j].kind = "numeric"
        /\ Cardinality(PresentValues(table.columns[j])) = 1
        /\ table.rows - CopiesIn("nan", table.columns[j].cells) >= 2}
HighCardinalityColumns ==
    {j \in ColumnIndexes :
        /\ table.columns[j].kind = "categorical"
        /\ 5 * Cardinality(PresentValues(table.columns[j])) > 4 * table.rows}
Deductions ==
    DeductionM + DeductionD + 5 * Cardinality(LowVarianceColumns)
        + 10 * Cardinality(HighCardinalityColumns)

\* C15: for a dataset with at least one row the profile carries
\* quality_score = max(0, 100 - m - d - 5*L - 10*H), so the score lies in
\* 0..100 and is never above 100 minus any single deduction.
C15_QualityScore ==
    (Analyzed /\ table.rows >= 1) =>
        /\ "data_quality" \in DOMAIN profile
        /\ LET score == profile.data_quality.overall_score
           IN  /\ score = (IF Deductions > 100 THEN 0 ELSE 100 - Deductions)
               /\ 0 <= score /\ score <= 100
               /\ score <= 100 - DeductionM /\ score <= 100 - DeductionD

\* a table whose deductions exceed 100: the score is floored at 0
C15_Witness ==
    /\ Analyzed
    /\ Deductions > 100
    /\ DeductionM = 20
    /\ profile.data_quality.overall_score = 0

ExpectedRecommendation(kind) ==
    CASE kind \in {"High missing values", "Moderate missing values"} ->
             "Consider imputation strategies for missing values"
      [] kind \in {"High duplicate rows", "Moderate duplicate rows"} ->
             "Remove duplicate rows to improve data quality"
      [] kind = "Low variance columns" ->
             "Consider removing low variance columns"
      [] kind = "High cardinality columns" ->
             "Consider encoding or grouping high cardinality categorical variables"

\* C16: the recommendations of a profile are one per quality issue, in the
\* order of the issues, each the recommendation of its issue's category,
\* whatever the columns are called.
C16_RecommendationPerIssue ==
    (Analyzed /\ "data_quality" \in DOMAIN profile) =>
        LET issues == profile.data_quality.issues
            recs == profile.data_quality.recommendations
        IN  /\ Len(recs) = Len(issues)
            /\ \A j \in 1..Len(issues) :
                  recs[j] = ExpectedRecommendation(issues[j].kind)

ScoreOf(j) == target_info(table.columns[j], table.rows).suitability_score
Listed(targets) == {targets[j].column.no : j \in 1..Len(targets)}

\* C17: the target candidates of a profile are min(5, number of columns)
\* different columns listed by score descending, columns of equal score in
\* column order; a column left out has no higher score than a listed one,
\* and comes after every listed column of the same score.
C17_TopFiveTargets ==
    (Analyzed /\ "potential_targets" \in DOMAIN profile) =>
        LET targets == profile.potential_targets
            n == Len(table.columns)
        IN  /\ Len(targets) = (IF n < 5 THEN n ELSE 5)
            /\ Cardinality(Listed(targets)) = Len(targets)
            /\ \A j \in 1..Len(targets) :
                  /\ targets[j].column.no \in ColumnIndexes
                  /\ targets[j].column = table.columns[targets[j].column.no].name
                  /\ targets[j].suitability_score = ScoreOf(targets[j].column.no)
            /\ \A j, k \in 1..Len(targets) :
                  j < k =>
                      /\ targets[j].suitability_score >= targets[k].suitability_score
                      /\ targets[j].suitability_score = targets[k].suitability_score
                            => targets[j].column.no < targets[k].column.no
            /\ \A out \in ColumnIndexes \ Listed(targets) :
                  \A j \in 1..Len(targets) :
                      /\ ScoreOf(out) <= targets[j].suitability_score
                      /\ ScoreOf(out) = targets[j].suitability_score
                            => targets[j].column.no < out

\* six columns, the best one last, two listed columns of equal score and a
\* column of that score left out
C17_Witness ==
    /\ Analyzed
    /\ Len(table.columns) = 6
    /\ Len(profile.potential_targets) = 5
    /\ profile.potential_targets[1].column.no = 6
    /\ profile.potential_targets[4].suitability_score
          = profile.potential_targets[5].suitability_score
    /\ \E out \in ColumnIndexes \ Listed(profile.potential_targets) :
          ScoreOf(out) = profile.potential_targets[5].suitability_score

\* C18: whatever the dataset, the profile analyze_dataset returns contains
\* shape, columns, missing_values, data_quality with a score in 0..100 and
\* potential_targets, also when an analysis step failed.
C18_ProfileAlwaysStructured ==
    Analyzed =>
        /\ {"shape", "columns", "missing_values", "data_quality",
            "potential_targets"} \subseteq DOMAIN profile
        /\ profile.data_quality.overall_score \in 0..100

----------------------------------------------------------------------------
(* Properties of the HTTP handlers *)

SessionRoutes == {"suggest-models", "train-model", "generate-charts"}
Handled == request # None
UnknownSession ==
    /\ request.route \in SessionRoutes
    /\ ~DictHas(active_sessions, request.session_id)
BadExtension ==
    /\ request.route = "upload-data"
    /\ request.filename.suffix \notin {".csv", ".xlsx", ".json"}

\* C19: a suggest-models, train-model or generate-charts request for a
\* session id that is not in the store is answered with HTTP 404, and an
\* upload whose filename does not end in .csv, .xlsx or .json with HTTP 400.
C19_ChosenStatusReachesClient ==
    Handled =>
        /\ UnknownSession => response.status = 404
        /\ BadExtension => response.status = 400

InSomeRegistry(m) == InList(m, classification_models) \/ InList(m, regression_models)
\* the step is a train-model request for a stored session, whose dataset
\* the pipeline can split, that names a model outside the registry
TrainUnknownModel ==
    /\ \E session_id \in SessionIds, selected \in TrainRequests :
          train_model(session_id, selected, DefaultConfig)
    /\ DictHas(active_sessions, request'.session_id)
    /\ len(DictGet(active_sessions, request'.session_id).data.target) >= 2
    /\ \E j \in 1..Len(request'.selected_models) :
          ~InSomeRegistry(request'.selected_models[j])

\* C20: a train-model request for an existing session that selects a model
\* name outside the registry is answered with HTTP 400, and the session's
\* stored training results are neither created nor changed by it.
C20_UnknownModelIsClientError ==
    [][TrainUnknownModel =>
          /\ response'.status = 400
          /\ active_sessions' = active_sessions]_vars

----------------------------------------------------------------------------
(* Properties of the insight rules *)

Compared == pc = "compared" /\ "insights" \in DOMAIN report
Successful == SelectSeq(results, LAMBDA e : IsSuccess(e[2]))
HasInsight(kind) ==
    \E j \in 1..Len(report.insights) : report.insights[j].kind = kind
OverfitInsightsFor(m) ==
    {j \in 1..Len(report.insights) :
        /\ report.insights[j].kind = "overfitting"
        /\ report.insights[j].model = m}
\* the rule conditions, each from the metrics of the successful models alone
Known(x) == x.tag # "None"
GapOver(e) ==
    /\ Known(train_acc(e)) /\ Known(test_acc(e))
    /\ train_acc(e).val - test_acc(e).val > 10
EnsembleAndLinear ==
    /\ \E j \in 1..Len(Successful) :
          Successful[j][1] \in {"random_forest", "xgboost", "lightgbm"}
    /\ \E j \in 1..Len(Successful) :
          Successful[j][1] \in {"logistic_regression", "linear_regression"}
SpeedRatioOver ==
    \E a, b \in 1..Len(Successful) :
        /\ Successful[a][2].training_time.val > 0
        /\ Successful[b][2].training_time.val > 5 * Successful[a][2].training_time.val
AccuracyGapOver ==
    \E a, b \in 1..Len(Successful) :
        Successful[a][2].metrics.accuracy.val
            - Successful[b][2].metrics.accuracy.val > 10

\* C22: each insight rule fires exactly when its own condition holds,
\* whatever happens in the other rules: a null train or test accuracy of one
\* model does not keep the speed, accuracy-gap, overfitting (for the other
\* models) and ensemble-vs-linear rules from firing.
C22_RulesIndependent ==
    (Compared /\ report.problem_type = "classification") =>
        /\ HasInsight("faster") <=> SpeedRatioOver
        /\ HasInsight("accuracy_difference") <=> AccuracyGapOver
        /\ \A j \in 1..Len(Successful) :
              Known(train_acc(Successful[j])) /\ Known(test_acc(Successful[j]))
                  => (OverfitInsightsFor(Successful[j][1]) # {}
                          <=> GapOver(Successful[j]))
        /\ HasInsight("ensemble_and_linear") <=> EnsembleAndLinear

\* C23: for classification results there is one overfitting insight per
\* successful model whose train_accuracy - test_accuracy exceeds 0.1, naming
\* it, and none for any other model.
C23_OverfittingPerModel ==
    (Compared /\ report.problem_type = "classification") =>
        \A j \in 1..Len(results) :
            Cardinality(OverfitInsightsFor(results[j][1])) =
                (IF IsSuccess(results[j][2]) /\ GapOver(results[j]) THEN 1 ELSE 0)

----------------------------------------------------------------------------
(* Properties of the feature importance *)

Recorded == pc = "recorded"
TheResult == DictGet(results, estimator.name)
Exposes(attr, kind) == attr.kind = kind
\* the importance map the statement describes, feature by feature
ExpectedImportance(j) ==
    LET imp == estimator.feature_importances_
        coef == estimator.coef_
        rows == coef.values
    IN  IF Exposes(imp, "vector") THEN imp.values[1][j]
        ELSE IF Exposes(coef, "vector")
        THEN IF rows[1][j].val < 0 THEN Fin(-rows[1][j].val) ELSE rows[1][j]
        ELSE LET total == IF Len(rows) = 1 THEN Abs(rows[1][j].val)
                          ELSE Abs(rows[1][j].val) + Abs(rows[2][j].val)
             IN  Fin(total \div Len(rows))
ExpectEmpty ==
    \/ Exposes(estimator.feature_importances_, "raises")
    \/ /\ Exposes(estimator.feature_importances_, "absent")
       /\ estimator.coef_.kind \in {"absent", "raises"}

\* C24: the recorded result keeps status success and its feature importance
\* is the model's importance vector keyed by feature when it exposes one,
\* else the absolute coefficients (the mean of the absolute values over the
\* rows of a coefficient matrix), else the empty map; an exception during
\* the extraction gives the empty map. A value that is not a number is
\* reported as null.
C24_ImportanceNeverFails ==
    Recorded =>
        /\ TheResult.status = "success"
        /\ IF ExpectEmpty THEN TheResult.feature_importance = <<>>
           ELSE /\ Len(TheResult.feature_importance) = Len(estimator.feature_names)
                /\ \A j \in 1..Len(estimator.feature_names) :
                      /\ TheResult.feature_importance[j][1] = estimator.feature_names[j]
                      /\ TheResult.feature_importance[j][2] =
                             (IF ExpectedImportance(j).tag = "nan" THEN None
                              ELSE ExpectedImportance(j))

C24_Witness ==
    /\ Recorded
    /\ Exposes(estimator.feature_importances_, "absent")
    /\ Exposes(estimator.coef_, "matrix")
    /\ Len(estimator.coef_.values) = 2
    /\ estimator.coef_.values[1][1] = Fin(-4)
    /\ estimator.coef_.values[2][1] = Fin(6)
    /\ TheResult.feature_importance[1] = <<"f1", Fin(5)>>

----------------------------------------------------------------------------
(* Properties of the suggestion payload *)

PayloadDelivered == pc = "returned" /\ "problem_type" \in DOMAIN payload
\* the comparison run got past its split
ComparisonRan == train_test_split(len(df.target), <<3, 10>>).ok
\* the problem type an entry of the comparison was fitted and scored under
FittedAs(entry) ==
    IF entry.status # "success" THEN comparison_type
    ELSE IF entry.primary_metric = "accuracy" THEN "classification"
    ELSE "regression"

\* C25: the problem_type of the payload is the type under which every model
\* of model_comparison was fitted and scored, and every model of that type's
\* registry has an entry, also when the caller's explicit problem_type
\* differs from the one derived from the target column.
C25_PayloadTypeIsComparisonType ==
    (PayloadDelivered /\ ComparisonRan) =>
        /\ \A j \in 1..Len(payload.model_comparison) :
              FittedAs(payload.model_comparison[j][2]) = payload.problem_type
        /\ \A j \in 1..Len(model_dict(payload.problem_type)) :
              DictHas(payload.model_comparison, model_dict(payload.problem_type)[j])

----------------------------------------------------------------------------
(* Properties of the session store *)

\* C26: file_hash_to_session is consistent with active_sessions after any
\* sequence of uploads: a hash mapped to a session id names a stored session
\* whose file_hash is that hash, so uploads of different content never share
\* a session, also within one clock second.
C26_HashMapConsistent ==
    \A j \in 1..Len(file_hash_to_session) :
        /\ DictHas(active_sessions, file_hash_to_session[j][2])
        /\ DictGet(active_sessions, file_hash_to_session[j][2]).file_hash
               = file_hash_to_session[j][1]

UploadStep == \E file \in Files : upload_data(file)
\* the step is an accepted upload of content whose hash is mapped to a
\* stored session
DuplicateUpload ==
    /\ UploadStep
    /\ request'.filename.suffix \in {".csv", ".xlsx", ".json"}
    /\ DictHas(file_hash_to_session, request'.content.hash)
    /\ DictHas(active_sessions,
               DictGet(file_hash_to_session, request'.content.hash))

\* C27: an upload (under an accepted filename) of content whose hash is
\* mapped to a stored session returns that session's id with is_duplicate
\* true and leaves active_sessions and file_hash_to_session unchanged.
C27_DuplicateUploadIdempotent ==
    [][DuplicateUpload =>
          /\ response'.status = 200
          /\ response'.body.is_duplicate
          /\ response'.body.session_id =
                 DictGet(file_hash_to_session, request'.content.hash)
          /\ active_sessions' = active_sessions
          /\ file_hash_to_session' = file_hash_to_session]_vars

\* a stored session with training results was uploaded again, in a later
\* second, and found as a duplicate
C27_Witness ==
    /\ request # None
    /\ request.route = "upload-data"
    /\ response.status = 200
    /\ response.body.is_duplicate
    /\ now > DictGet(active_sessions, response.body.session_id).uploaded_at
    /\ "training_results" \in DOMAIN DictGet(active_sessions, response.body.session_id)
    /\ Len(active_sessions) = 1

TrainStep ==
    \E session_id \in SessionIds, selected \in TrainRequests :
        train_model(session_id, selected, DefaultConfig)
HasResults(sessions, session_id) ==
    /\ DictHas(sessions, session_id)
    /\ "training_results" \in DOMAIN DictGet(sessions, session_id)

\* C28: a train-model request that fails leaves the session store as it
\* was; a request that returns normally stores the results it returns.
C28_FailedTrainingKeepsStore ==
    [][TrainStep =>
          IF response'.status = 200
          THEN /\ HasResults(active_sessions', request'.session_id)
               /\ DictGet(active_sessions', request'.session_id).training_results
                      = response'.body.results
          ELSE active_sessions' = active_sessions]_vars

\* a request naming an unknown model failed on a session that holds results
C28_Witness ==
    /\ request # None
    /\ request.route = "train-model"
    /\ response.status = 500
    /\ request.selected_models = <<"made_up_model">>
    /\ HasResults(active_sessions, request.session_id)
    /\ Len(DictGet(active_sessions, request.session_id).training_results.results) = 1

----------------------------------------------------------------------------
(* Properties of the preprocessing *)

CallersDataset == memory[1]
FeaturesOf(frame) == SelectSeq(frame, LAMBDA c : c.name # TargetColumn)
HasMissing(col) == \E j \in 1..Len(col.cells) : isnull(col, j)
AllMissing(col) == \A j \in 1..Len(col.cells) : isnull(col, j)

\* C21: the preprocessing of the training path, of the suggestion path and
\* of the data processor leaves the caller's dataset as it was: the same
\* columns, the target included, in the same order with the same cells,
\* missing cells still missing and categorical cells not encoded.
C21_CallersDatasetUnchanged ==
    [][(PrepareData \/ QuickPreprocess \/ PreprocessData)
          => memory'[1] = memory[1]]_vars

\* all three paths ran on a dataset with a missing numeric cell and a
\* categorical column, and each produced a table that differs from it
C21_Witness ==
    /\ prepared.train.done /\ prepared.suggest.done /\ prepared.processor.done
    /\ Len(CallersDataset) = 3
    /\ CallersDataset[1].kind = "numeric" /\ HasMissing(CallersDataset[1])
    /\ CallersDataset[3].kind = "categorical" /\ HasMissing(CallersDataset[3])
    /\ CallersDataset[2].name = TargetColumn
    /\ prepared.train.X # FeaturesOf(CallersDataset)
    /\ prepared.processor.X # FeaturesOf(CallersDataset)
    /\ ~HasMissing(prepared.train.X[1])

\* C29: after _prepare_data the feature table has no target column, no
\* non-numeric column and no missing value, and every cell that was missing
\* in a numeric feature column holds that column's mean, also in a column
\* whose cells are all missing.
C29_PreparedFeaturesComplete ==
    prepared.train.done =>
        LET X == prepared.train.X
            features == FeaturesOf(CallersDataset)
        IN  /\ Len(X) = Len(features)
            /\ \A j \in 1..Len(X) :
                  /\ X[j].name = features[j].name
                  /\ X[j].kind = "numeric"
                  /\ ~HasMissing(X[j])
                  /\ features[j].kind = "numeric" =>
                        \A r \in 1..Len(X[j].cells) :
                            X[j].cells[r] =
                                (IF isnull(features[j], r) THEN mean(features[j])
                                 ELSE features[j].cells[r])

\* C30: for the same dataset and target, _prepare_data and
\* _preprocess_features after dropping the target produce the same feature
\* table: the same code for each categorical value and the same imputed
\* value for each missing cell, also in categorical columns with missing
\* values.
C30_SamePreparedTable ==
    (prepared.train.done /\ prepared.suggest.done) =>
        prepared.train.X = prepared.suggest.X

====
